---- MODULE Spec2Model ----
(***************************************************************************)
(* Model of the sentiment pipeline: TradeSignalService (signal engine),    *)
(* NewsPipeline.process (coordinator) and the RedisState / SQLite          *)
(* collaborators it drives.                                                *)
(*                                                                         *)
(* Numbers: sentiment scores, thresholds and confidences are floats in the *)
(* source; they are modelled as integers counting tenths (0.6 is 6).       *)
(* Optional values: None is the empty tuple, a present value v is <<v>>.   *)
(* Strings that the code inspects (headline, summary) are sequences of     *)
(* one-character strings; " " stands for any whitespace character.         *)
(***************************************************************************)
EXTENDS Integers, Sequences, FiniteSets, TLC

VARIABLES
  svcArgs,   \* arguments given to TradeSignalService.__init__
  svc,       \* the constructed TradeSignalService (None before construction)
  sigIn,     \* arguments of the last direct TradeSignalService.signal call
  sigOut,    \* its return value
  call,      \* per caller thread: position in NewsPipeline.process and its locals
  started,   \* number of process calls begun so far
  rows,      \* table sentiment_metadata, in insertion order
  cbKey,     \* Redis holds KEY_CIRCUIT_BREAKER = "1"
  latest,    \* value under KEY_LATEST_SENTIMENT (None when absent)
  eng,       \* a SentimentEngine: its flags, its FinBERT pipeline, its last score call
  alp,       \* an AlpacaNewsStreamService: the last frame and what it delivered
  tw,        \* a TwitterStreamService, its stream thread and the caller of start/stop
  rd,        \* a RedditService.run_poll_loop run
  lc,        \* a poll_lunarcrush_interval run
  rs,        \* a RedisState: the buzz key and the last direct operation
  sp,        \* a source item handed to an adapter's SocialPost conversion, and the result
  mc         \* the process-wide MetricsCollector and the threads recording into it

sigVars == <<svcArgs, svc, sigIn, sigOut>>
pipeVars == <<call, started, rows, cbKey, latest>>
feedVars == <<tw, rd, lc, rs>>
toolVars == <<sp, mc>>
otherVars == <<eng, alp, feedVars>>
vars == <<svcArgs, svc, sigIn, sigOut, call, started, rows, cbKey, latest, eng, alp,
          tw, rd, lc, rs, sp, mc>>

None == <<>>
Some(v) == <<v>>
IsNone(o) == o = <<>>
Val(o) == o[1]

(* ---- bounds ---- *)
MaxThr == 2
MaxScore == 8
MaxConf == 8

(* ---- config/settings.py defaults, in tenths ---- *)
SENTIMENT_THRESHOLD_BULLISH == 6
SENTIMENT_THRESHOLD_BEARISH == -6
MIN_CONFIDENCE_SCORE == 7
(* confidence used when the caller passes none: 1.0 *)
DefaultConfidence == 10

OptThresholds == {None} \cup {Some(t) : t \in (-MaxThr)..MaxThr}
OptMinConf == {None} \cup {Some(t) : t \in 0..MaxThr}
Scores == (-MaxScore)..MaxScore
OptConfidences == {None} \cup {Some(k) : k \in 0..MaxConf}

(* Python's "x or default" on an Optional[float]: None and 0.0 are falsy. *)
OrDefault(x, default) == IF IsNone(x) \/ Val(x) = 0 THEN default ELSE Val(x)

(* TradeSignalService.__init__ *)
TradeSignalService(threshold_bullish, threshold_bearish, min_confidence) ==
  [ threshold_bullish |-> OrDefault(threshold_bullish, SENTIMENT_THRESHOLD_BULLISH),
    threshold_bearish |-> OrDefault(threshold_bearish, SENTIMENT_THRESHOLD_BEARISH),
    min_confidence |-> OrDefault(min_confidence, MIN_CONFIDENCE_SCORE) ]

Sig(side, reason, score) == [side |-> side, reason |-> reason, score |-> score]

signal_cb_late(self, sentiment_score, confidence, circuit_breaker_tripped) ==
  LET conf == IF IsNone(confidence) THEN DefaultConfidence ELSE Val(confidence)
  IN  IF conf < self.min_confidence
        THEN Sig("hold", "low_confidence", sentiment_score)
      ELSE IF sentiment_score >= self.threshold_bullish
        THEN Sig("buy", "sentiment_bullish", sentiment_score)
      ELSE IF sentiment_score <= self.threshold_bearish
        THEN Sig("sell", "sentiment_bearish", sentiment_score)
      ELSE IF circuit_breaker_tripped
        THEN Sig("hold", "circuit_breaker", sentiment_score)
      ELSE Sig("hold", "neutral", sentiment_score)

signal_sell_first(self, sentiment_score, confidence, circuit_breaker_tripped) ==
  LET conf == IF IsNone(confidence) THEN DefaultConfidence ELSE Val(confidence)
  IN  IF circuit_breaker_tripped
        THEN Sig("hold", "circuit_breaker", sentiment_score)
      ELSE IF conf < self.min_confidence
        THEN Sig("hold", "low_confidence", sentiment_score)
      ELSE IF sentiment_score <= self.threshold_bearish
        THEN Sig("sell", "sentiment_bearish", sentiment_score)
      ELSE IF sentiment_score >= self.threshold_bullish
        THEN Sig("buy", "sentiment_bullish", sentiment_score)
      ELSE Sig("hold", "neutral", sentiment_score)

signal_bullish_hold(self, sentiment_score, confidence, circuit_breaker_tripped) ==
  LET conf == IF IsNone(confidence) THEN DefaultConfidence ELSE Val(confidence)
  IN  IF circuit_breaker_tripped
        THEN Sig("hold", "circuit_breaker", sentiment_score)
      ELSE IF conf < self.min_confidence
        THEN Sig("hold", "low_confidence", sentiment_score)
      ELSE IF sentiment_score >= self.threshold_bullish
        THEN Sig("hold", "sentiment_bullish", sentiment_score)
      ELSE IF sentiment_score <= self.threshold_bearish
        THEN Sig("sell", "sentiment_bearish", sentiment_score)
      ELSE Sig("hold", "neutral", sentiment_score)

(* TradeSignalService.signal *)
signal(self, sentiment_score, confidence, circuit_breaker_tripped) ==
  LET conf == IF IsNone(confidence) THEN DefaultConfidence ELSE Val(confidence)
  IN  IF circuit_breaker_tripped
        THEN Sig("hold", "circuit_breaker", sentiment_score)
      ELSE IF conf < self.min_confidence
        THEN Sig("hold", "low_confidence", sentiment_score)
      ELSE IF sentiment_score >= self.threshold_bullish
        THEN Sig("buy", "sentiment_bullish", sentiment_score)
      ELSE IF sentiment_score <= self.threshold_bearish
        THEN Sig("sell", "sentiment_bearish", sentiment_score)
      ELSE Sig("hold", "neutral", sentiment_score)

(* ---- bounds of the pipeline model ---- *)
MaxStrLen == 1
MaxCalls == 2

(* headline[:200] *)
HeadlineMax == 200

Callers == {1, 2}

(* models.news_item.NewsItem, the fields process reads *)
NewsItem(article_id, headline, summary) ==
  [source |-> "alpaca", article_id |-> article_id, headline |-> headline,
   summary |-> summary, symbols |-> <<"SPY">>]

(* absent, empty or whitespace-only strings *)
Blanks == {None} \cup {Some([i \in 1..k |-> " "]) : k \in 0..MaxStrLen}

(* the events handed to process: every event without text, and events     *)
(* with a headline only, a summary only, and both (with padding)           *)
EmptyNews == {NewsItem("a1", h, s) : h \in Blanks, s \in Blanks}
TextNews ==
  { NewsItem("a1", Some(<<"x">>), None),
    NewsItem("a2", Some(<<" ">>), Some(<<"y">>)),
    NewsItem("a2", Some(<<"x", " ">>), Some(<<" ", "y">>)) }
NewsItems == EmptyNews \cup TextNews

(* what an injected scorer may return *)
ScorerResults ==
  { [score |-> MaxScore, model_used |-> "finbert"],
    [score |-> -MaxScore, model_used |-> "finbert"],
    [score |-> 0, model_used |-> "none"] }

(* ---- str.strip() ---- *)
RECURSIVE lstrip(_)
lstrip(s) == IF s # <<>> /\ Head(s) = " " THEN lstrip(Tail(s)) ELSE s

RECURSIVE rstrip(_)
rstrip(s) == IF s # <<>> /\ s[Len(s)] = " " THEN rstrip(SubSeq(s, 1, Len(s) - 1)) ELSE s

strip(s) == rstrip(lstrip(s))

(* (x or "") on an Optional[str] *)
OrEmpty(o) == IF IsNone(o) THEN <<>> ELSE Val(o)

Prefix(s, n) == SubSeq(s, 1, IF Len(s) < n THEN Len(s) ELSE n)

text_no_strip(news_item) ==
  LET headline == OrEmpty(news_item.headline)
      summary == OrEmpty(news_item.summary)
  IN  IF headline # <<>> /\ summary # <<>>
        THEN headline \o <<" ">> \o summary
      ELSE IF headline # <<>> THEN headline ELSE summary

text_no_join(news_item) ==
  LET headline == strip(OrEmpty(news_item.headline))
      summary == strip(OrEmpty(news_item.summary))
  IN  IF headline # <<>> THEN headline ELSE summary

(* NewsPipeline._text_for_sentiment *)
text_for_sentiment(news_item) ==
  LET headline == strip(OrEmpty(news_item.headline))
      summary == strip(OrEmpty(news_item.summary))
  IN  IF headline # <<>> /\ summary # <<>>
        THEN headline \o <<" ">> \o summary
      ELSE IF headline # <<>> THEN headline ELSE summary

(* ---- RedisState ---- *)
(* How a call to the Redis client ends: "none" it answers, "redis_error"   *)
(* it raises redis.RedisError (server unreachable, timeout), "other" it    *)
(* raises an exception that is not a RedisError.  The RedisState methods   *)
(* catch RedisError only.                                                  *)
Faults == {"none", "redis_error", "other"}

cb_read_stale(key, fault) ==
  IF fault = "other" THEN [raised |-> TRUE, value |-> FALSE]
  ELSE [raised |-> FALSE, value |-> FALSE]

(* RedisState.circuit_breaker_tripped *)
circuit_breaker_tripped(key, fault) ==
  IF fault = "none" THEN [raised |-> FALSE, value |-> key]
  ELSE IF fault = "redis_error" THEN [raised |-> FALSE, value |-> FALSE]
  ELSE [raised |-> TRUE, value |-> FALSE]

(* RedisState.set_circuit_breaker: the key afterwards, whether it raised *)
set_circuit_breaker(key, tripped, fault) ==
  IF fault = "none" THEN [raised |-> FALSE, stored |-> tripped]
  ELSE IF fault = "redis_error" THEN [raised |-> FALSE, stored |-> key]
  ELSE [raised |-> TRUE, stored |-> key]

set_latest_fieldwise(old, payload, fault) ==
  IF fault = "none"
    THEN [raised |-> FALSE,
          stored |-> IF IsNone(old) THEN Some(payload)
                     ELSE Some([payload EXCEPT !.signal_side = Val(old).signal_side,
                                               !.signal_reason = Val(old).signal_reason])]
  ELSE IF fault = "redis_error" THEN [raised |-> FALSE, stored |-> old]
  ELSE [raised |-> TRUE, stored |-> old]

(* RedisState.set_latest_sentiment: the value afterwards, whether it raised *)
set_latest_sentiment(old, payload, fault) ==
  IF fault = "none" THEN [raised |-> FALSE, stored |-> Some(payload)]
  ELSE IF fault = "redis_error" THEN [raised |-> FALSE, stored |-> old]
  ELSE [raised |-> TRUE, stored |-> old]

(* ---- NewsPipeline.process, one caller thread c ---- *)
IdleCall ==
  [ pc |-> "idle", news |-> None, sentiment_result |-> None,
    circuit_breaker_tripped |-> FALSE, signal |-> None, row_id |-> None,
    result |-> None,
    \* history of the call, read by the properties only
    scored |-> <<>>, cbReads |-> 0, cbFault |-> "none", cbHeld |-> FALSE,
    inserts |-> 0, insertRaised |-> FALSE, published |-> None,
    publishFault |-> "none" ]

NoResult == [sentiment_result |-> None, signal |-> None, sentiment_row_id |-> None]

Idle(c) == call[c].pc \in {"idle", "done", "raised"}

(* lines 50-53: build the text, return the no-op result when it is empty *)
BeginWith(c, items) ==
  /\ Idle(c)
  /\ started < MaxCalls
  /\ started' = started + 1
  /\ \E n \in items :
       call' = [call EXCEPT ![c] =
         IF text_for_sentiment(n) = <<>>
           THEN [IdleCall EXCEPT !.pc = "done", !.news = Some(n),
                                 !.result = Some(NoResult), !.cbHeld = cbKey]
           ELSE [IdleCall EXCEPT !.pc = "score", !.news = Some(n),
                                 !.cbHeld = cbKey]]
  /\ UNCHANGED <<sigVars, toolVars, otherVars, rows, cbKey, latest>>

Begin(c) == BeginWith(c, NewsItems)

(* lines 56-58: self.sentiment_engine.score(text); not inside a try *)
Score(c) ==
  /\ call[c].pc = "score"
  /\ LET text == text_for_sentiment(Val(call[c].news))
     IN  \/ \E r \in ScorerResults :
               call' = [call EXCEPT ![c].pc = "read_cb",
                                    ![c].sentiment_result = Some(r),
                                    ![c].scored = Append(@, text)]
         \/ call' = [call EXCEPT ![c].pc = "raised",
                                 ![c].scored = Append(@, text)]
  /\ UNCHANGED <<sigVars, toolVars, otherVars, started, rows, cbKey, latest>>

(* lines 61-66: read the circuit breaker, compute the signal; no try *)
ReadCircuitBreaker(c) ==
  /\ call[c].pc = "read_cb"
  /\ \E fault \in Faults :
       LET r == circuit_breaker_tripped(cbKey, fault)
           score == Val(call[c].sentiment_result).score
       IN  call' = [call EXCEPT ![c] =
             IF r.raised
               THEN [@ EXCEPT !.pc = "raised", !.cbReads = @ + 1, !.cbFault = fault]
               ELSE [@ EXCEPT !.pc = "insert", !.cbReads = @ + 1, !.cbFault = fault,
                              !.circuit_breaker_tripped = r.value,
                              !.signal = Some(signal(Val(svc), score, None, r.value))]]
  /\ UNCHANGED <<sigVars, toolVars, otherVars, started, rows, cbKey, latest>>

(* SQLiteRepository.insert_sentiment: the row written (created_at and      *)
(* raw_payload are left out), id from AUTOINCREMENT                        *)
Row(id, news_item, sentiment_result) ==
  [ id |-> id, source |-> news_item.source, source_id |-> news_item.article_id,
    content_hash |-> None, score |-> sentiment_result.score,
    model_used |-> sentiment_result.model_used ]

insert_unguarded(c) ==
  /\ call[c].pc = "insert"
  /\ \/ /\ rows' = Append(rows, Row(Len(rows) + 1, Val(call[c].news),
                                    Val(call[c].sentiment_result)))
        /\ call' = [call EXCEPT ![c].pc = "publish", ![c].inserts = @ + 1,
                                ![c].row_id = Some(Len(rows) + 1)]
     \/ /\ rows' = rows
        /\ call' = [call EXCEPT ![c].pc = "raised", ![c].inserts = @ + 1,
                                ![c].insertRaised = TRUE]
  /\ UNCHANGED <<sigVars, toolVars, otherVars, started, cbKey, latest>>

insert_dedup(c) ==
  /\ call[c].pc = "insert"
  /\ LET same == {i \in 1..Len(rows) : rows[i].source_id = Val(call[c].news).article_id}
     IN  \/ /\ same = {}
            /\ rows' = Append(rows, Row(Len(rows) + 1, Val(call[c].news),
                                        Val(call[c].sentiment_result)))
            /\ call' = [call EXCEPT ![c].pc = "publish", ![c].inserts = @ + 1,
                                    ![c].row_id = Some(Len(rows) + 1)]
         \/ /\ same # {}
            /\ rows' = rows
            /\ call' = [call EXCEPT ![c].pc = "publish", ![c].inserts = @ + 1,
                                    ![c].row_id = Some(CHOOSE i \in same : TRUE)]
         \/ /\ rows' = rows
            /\ call' = [call EXCEPT ![c].pc = "publish", ![c].inserts = @ + 1,
                                    ![c].insertRaised = TRUE, ![c].row_id = None]
  /\ UNCHANGED <<sigVars, toolVars, otherVars, started, cbKey, latest>>

(* lines 69-81: insert_sentiment inside try/except Exception; the insert   *)
(* either commits one row or raises (database locked, disk error)          *)
Insert(c) ==
  /\ call[c].pc = "insert"
  /\ \/ /\ rows' = Append(rows, Row(Len(rows) + 1, Val(call[c].news),
                                    Val(call[c].sentiment_result)))
        /\ call' = [call EXCEPT ![c].pc = "publish", ![c].inserts = @ + 1,
                                ![c].row_id = Some(Len(rows) + 1)]
     \/ /\ rows' = rows
        /\ call' = [call EXCEPT ![c].pc = "publish", ![c].inserts = @ + 1,
                                ![c].insertRaised = TRUE, ![c].row_id = None]
  /\ UNCHANGED <<sigVars, toolVars, otherVars, started, cbKey, latest>>

payload_no_cut(news_item, sentiment_result, sig) ==
  [ score |-> sentiment_result.score, model_used |-> sentiment_result.model_used,
    source |-> news_item.source, source_id |-> news_item.article_id,
    headline |-> OrEmpty(news_item.headline),
    symbols |-> news_item.symbols,
    signal_side |-> sig.side, signal_reason |-> sig.reason ]

(* lines 84-93 *)
latest_payload(news_item, sentiment_result, sig) ==
  [ score |-> sentiment_result.score, model_used |-> sentiment_result.model_used,
    source |-> news_item.source, source_id |-> news_item.article_id,
    headline |-> Prefix(OrEmpty(news_item.headline), HeadlineMax),
    symbols |-> news_item.symbols,
    signal_side |-> sig.side, signal_reason |-> sig.reason ]

(* lines 105-109 *)
Result(c) ==
  [ sentiment_result |-> call[c].sentiment_result, signal |-> call[c].signal,
    sentiment_row_id |-> call[c].row_id ]

publish_unguarded(c) ==
  /\ call[c].pc = "publish"
  /\ \E fault \in Faults :
       LET payload == latest_payload(Val(call[c].news), Val(call[c].sentiment_result),
                                     Val(call[c].signal))
           r == set_latest_sentiment(latest, payload, fault)
       IN  /\ latest' = r.stored
           /\ call' = [call EXCEPT ![c] =
                [@ EXCEPT !.pc = IF r.raised THEN "raised" ELSE "done",
                          !.published = Some(payload),
                          !.publishFault = fault,
                          !.result = IF r.raised THEN None ELSE Some(Result(c))]]
  /\ UNCHANGED <<sigVars, toolVars, otherVars, started, rows, cbKey>>

(* lines 84-109: publish inside try/except Exception, then return *)
Publish(c) ==
  /\ call[c].pc = "publish"
  /\ \E fault \in Faults :
       LET payload == latest_payload(Val(call[c].news), Val(call[c].sentiment_result),
                                     Val(call[c].signal))
           r == set_latest_sentiment(latest, payload, fault)
       IN  /\ latest' = r.stored
           /\ call' = [call EXCEPT ![c] =
                [@ EXCEPT !.pc = "done",
                          !.published = Some(payload),
                          !.publishFault = fault,
                          !.result = Some(Result(c))]]
  /\ UNCHANGED <<sigVars, toolVars, otherVars, started, rows, cbKey>>

(* ---- the environment of the pipeline ---- *)
(* a call in flight no longer ran entirely under a tripped breaker *)
DropHeld == [c \in Callers |-> [call[c] EXCEPT !.cbHeld = FALSE]]

(* RedisState.set_circuit_breaker(tripped), called by risk management *)
SetCircuitBreaker(tripped) ==
  /\ \E fault \in Faults :
       cbKey' = set_circuit_breaker(cbKey, tripped, fault).stored
  /\ call' = IF cbKey' THEN call ELSE DropHeld
  /\ UNCHANGED <<sigVars, toolVars, otherVars, started, rows, latest>>

(* ex=3600: the circuit-breaker key expires *)
ExpireCircuitBreaker ==
  /\ cbKey
  /\ cbKey' = FALSE
  /\ call' = DropHeld
  /\ UNCHANGED <<sigVars, toolVars, otherVars, started, rows, latest>>

(* ex=300: the latest-sentiment key expires *)
ExpireLatest ==
  /\ ~IsNone(latest)
  /\ latest' = None
  /\ UNCHANGED <<sigVars, toolVars, otherVars, call, started, rows, cbKey>>

(* no SentimentEngine / no stream service under study *)
NoEngine == None
NoStream == None

(* no social adapter, no direct RedisState caller, no conversion and no   *)
(* metrics recording under study                                          *)
NoFeeds == tw = None /\ rd = None /\ lc = None /\ rs = None /\ sp = None /\ mc = None

NoArgs == [threshold_bullish |-> None, threshold_bearish |-> None, min_confidence |-> None]

(* main.py: NewsPipeline() with its default collaborators, fed by the one  *)
(* stream thread                                                           *)
Init ==
  /\ svcArgs = NoArgs
  /\ svc = Some(TradeSignalService(None, None, None))
  /\ sigIn = None
  /\ sigOut = None
  /\ call = [c \in Callers |-> IdleCall]
  /\ started = 0
  /\ rows = <<>>
  /\ cbKey = FALSE
  /\ latest = None
  /\ eng = NoEngine
  /\ alp = NoStream
  /\ NoFeeds

Process(c) == Begin(c) \/ Score(c) \/ ReadCircuitBreaker(c) \/ Insert(c) \/ Publish(c)

Next ==
  \/ Process(1)
  \/ \E t \in BOOLEAN : SetCircuitBreaker(t)
  \/ ExpireCircuitBreaker
  \/ ExpireLatest

Spec == Init /\ [][Next]_vars

(* ---- collaborators that never answer ---- *)
(* The scorer call and the two Redis calls carry no timeout: the Redis     *)
(* client is built without socket_timeout, the scorer is a plain call.     *)
(* (sqlite3.connect keeps its default lock timeout, so the insert is left  *)
(* out.)  A call whose collaborator never answers stays where it is.       *)
Blocks(c) ==
  /\ call[c].pc \in {"score", "read_cb", "publish"}
  /\ call' = [call EXCEPT ![c].pc = "blocked"]
  /\ UNCHANGED <<sigVars, toolVars, otherVars, started, rows, cbKey, latest>>

NextBlocking == Next \/ Blocks(1)

SpecBlocking == Init /\ [][NextBlocking]_vars

(* ---- process called from several threads at once ---- *)
(* Each adapter thread calls process synchronously; calls of different     *)
(* threads interleave at every collaborator call.                          *)
RaceNews ==
  { NewsItem("a1", Some(<<"x">>), None),
    NewsItem("a2", Some(<<" ">>), Some(<<"y">>)) }

ProcessText(c) ==
  BeginWith(c, RaceNews) \/ Score(c) \/ ReadCircuitBreaker(c) \/ Insert(c) \/ Publish(c)

(* the circuit breaker stays as it is during the race *)
NextRace ==
  \/ \E c \in Callers : ProcessText(c)
  \/ ExpireLatest

SpecRace == Init /\ [][NextRace]_vars

(* ---- process on headlines around the 200-character cut ---- *)
Repeat(ch, n) == [i \in 1..n |-> ch]

LongNews ==
  { NewsItem("a1", Some(Repeat("x", HeadlineMax + 1)), None),
    NewsItem("a2", Some(Repeat("x", HeadlineMax)), Some(<<"y">>)),
    NewsItem("a2", None, Some(<<"y">>)) }

ProcessLong(c) ==
  BeginWith(c, LongNews) \/ Score(c) \/ ReadCircuitBreaker(c) \/ Insert(c) \/ Publish(c)

NextLong ==
  \/ ProcessLong(1)
  \/ \E t \in BOOLEAN : SetCircuitBreaker(t)
  \/ ExpireCircuitBreaker
  \/ ExpireLatest

SpecLong == Init /\ [][NextLong]_vars

(* ---- the signal engine on its own: construct a service, call signal ---- *)
InitSignal ==
  /\ svcArgs \in [ threshold_bullish : OptThresholds,
                   threshold_bearish : OptThresholds,
                   min_confidence : OptMinConf ]
  /\ svc = None
  /\ sigIn = None
  /\ sigOut = None
  /\ call = [c \in Callers |-> IdleCall]
  /\ started = 0
  /\ rows = <<>>
  /\ cbKey = FALSE
  /\ latest = None
  /\ eng = NoEngine
  /\ alp = NoStream
  /\ NoFeeds

Construct ==
  /\ IsNone(svc)
  /\ svc' = Some(TradeSignalService(svcArgs.threshold_bullish,
                                    svcArgs.threshold_bearish,
                                    svcArgs.min_confidence))
  /\ UNCHANGED <<svcArgs, sigIn, sigOut, pipeVars, otherVars, toolVars>>

(* signal reads only its arguments and the service's fields, so one call    *)
(* per constructed service covers every call.                              *)
SignalCall ==
  /\ ~IsNone(svc)
  /\ IsNone(sigOut)
  /\ \E s \in Scores, c \in OptConfidences, t \in BOOLEAN :
       /\ sigIn' = Some([sentiment_score |-> s, confidence |-> c,
                         circuit_breaker_tripped |-> t])
       /\ sigOut' = Some(signal(Val(svc), s, c, t))
  /\ UNCHANGED <<svcArgs, svc, pipeVars, otherVars, toolVars>>

NextSignal == Construct \/ SignalCall

SpecSignal == InitSignal /\ [][NextSignal]_vars

(* ============ services/intelligence/sentiment_engine.py ============ *)
(* Label scores are in tenths like every score of the model; a backend     *)
(* output is a list of at most MaxOutLen label/score items.                *)
MaxOutLen == 2
MaxLabelScore == 15
TextCut == 4000

EngineTexts == { <<>>, <<" ">>, <<"x">>, <<" ", "x", " ">> }

Labels == {"positive", "negative", "neutral", "Positive"}
LabelScores == {-5, 0, 10, MaxLabelScore}
LabelItems == [label : Labels, score : LabelScores]

(* str.lower() on the labels above *)
lower(l) == IF l = "Positive" THEN "positive" ELSE l

(* How pipe(text, top_k=None) ends: it raises, it returns items that the   *)
(* dict comprehension cannot read (an exception inside the try), or it     *)
(* returns a list of label/score items, possibly empty.                    *)
PipeOutcomes ==
  { [kind |-> "raises", out |-> <<>>], [kind |-> "malformed", out |-> <<>>] }
    \cup { [kind |-> "labels", out |-> o] :
             o \in UNION { [1..n -> LabelItems] : n \in 0..MaxOutLen } }

(* how the transformers import and pipeline(...) construction end *)
LoadOutcomes == {"ok", "fails"}

(* SentimentEngine.__init__ *)
SentimentEngine(use_finbert, use_llama) ==
  [use_finbert |-> use_finbert, use_llama |-> use_llama, finbert_pipeline |-> "none"]

(* SentimentEngine._get_finbert: the engine after the call, and whether a  *)
(* load was attempted and failed                                           *)
get_finbert(self, load) ==
  IF self.finbert_pipeline = "none" /\ self.use_finbert
    THEN [ self |-> IF load = "ok" THEN [self EXCEPT !.finbert_pipeline = "loaded"] ELSE self,
           loadFailed |-> load # "ok" ]
    ELSE [ self |-> self, loadFailed |-> FALSE ]

(* {x["label"].lower(): x["score"] for x in out}: a later item overwrites  *)
(* an earlier one of the same label                                        *)
by_label(out) ==
  [ l \in {lower(out[i].label) : i \in 1..Len(out)} |->
      out[CHOOSE i \in 1..Len(out) :
            /\ lower(out[i].label) = l
            /\ \A j \in (i + 1)..Len(out) : lower(out[j].label) # l].score ]

(* dict.get(key, default) *)
get(d, key, default) == IF key \in DOMAIN d THEN d[key] ELSE default

(* max(by_label, key=by_label.get): the first key, in insertion order,     *)
(* with the largest value                                                  *)
max_label(out) ==
  LET d == by_label(out)
      first(l) == CHOOSE i \in 1..Len(out) :
                    /\ lower(out[i].label) = l
                    /\ \A j \in 1..(i - 1) : lower(out[j].label) # l
  IN  CHOOSE l \in DOMAIN d :
        \A m \in DOMAIN d : d[l] > d[m] \/ (d[l] = d[m] /\ first(l) <= first(m))

FinbertReturn(self, ret, piped, raised, loadFailed, outcome) ==
  [ self |-> self, ret |-> ret, piped |-> piped, raised |-> raised,
    loadFailed |-> loadFailed, outcome |-> outcome ]

score_finbert_no_strip(self, text, load, outcome) ==
  LET g == get_finbert(self, load)
      cut == <<Prefix(text, TextCut)>>
  IN  IF g.self.finbert_pipeline = "none" \/ text = <<>>
        THEN FinbertReturn(g.self, None, <<>>, FALSE, g.loadFailed, None)
      ELSE IF outcome.kind # "labels" \/ outcome.out = <<>>
        THEN FinbertReturn(g.self, None, cut, FALSE, g.loadFailed, Some(outcome))
      ELSE FinbertReturn(g.self,
             Some([ score |-> get(by_label(outcome.out), "positive", 0)
                                - get(by_label(outcome.out), "negative", 0),
                    label |-> max_label(outcome.out), model |-> "finbert" ]),
             cut, FALSE, g.loadFailed, Some(outcome))

score_finbert_unguarded(self, text, load, outcome) ==
  LET g == get_finbert(self, load)
      cut == <<Prefix(text, TextCut)>>
  IN  IF g.self.finbert_pipeline = "none" \/ text = <<>> \/ strip(text) = <<>>
        THEN FinbertReturn(g.self, None, <<>>, FALSE, g.loadFailed, None)
      ELSE IF outcome.kind # "labels"
        THEN FinbertReturn(g.self, None, cut, TRUE, g.loadFailed, Some(outcome))
      ELSE IF outcome.out = <<>>
        THEN FinbertReturn(g.self, None, cut, FALSE, g.loadFailed, Some(outcome))
      ELSE FinbertReturn(g.self,
             Some([ score |-> get(by_label(outcome.out), "positive", 0)
                                - get(by_label(outcome.out), "negative", 0),
                    label |-> max_label(outcome.out), model |-> "finbert" ]),
             cut, FALSE, g.loadFailed, Some(outcome))

(* SentimentEngine.score_finbert.  piped is what pipe was called with;     *)
(* raised says an exception left the method (none does: both the load and  *)
(* the call are inside try/except Exception).                              *)
score_finbert(self, text, load, outcome) ==
  LET g == get_finbert(self, load)
      cut == <<Prefix(text, TextCut)>>
  IN  IF g.self.finbert_pipeline = "none" \/ text = <<>> \/ strip(text) = <<>>
        THEN FinbertReturn(g.self, None, <<>>, FALSE, g.loadFailed, None)
      ELSE IF outcome.kind # "labels" \/ outcome.out = <<>>
        THEN FinbertReturn(g.self, None, cut, FALSE, g.loadFailed, Some(outcome))
      ELSE FinbertReturn(g.self,
             Some([ score |-> get(by_label(outcome.out), "positive", 0)
                                - get(by_label(outcome.out), "negative", 0),
                    label |-> max_label(outcome.out), model |-> "finbert" ]),
             cut, FALSE, g.loadFailed, Some(outcome))

(* SentimentEngine.score_llama: a placeholder that returns None *)
score_llama(self, text) == None

NeutralResult == [score |-> 0, model_used |-> "none", raw |-> [finbert |-> None, llama3 |-> None]]

(* What one score(text) call did: the engine after it, the returned dict   *)
(* (None when an exception left the call), what each backend method        *)
(* returned, and what the FinBERT pipeline was called with.                *)
ScoreReturn(f, llama, result) ==
  [ self |-> f.self, result |-> result, raised |-> f.raised, fin |-> f.ret,
    llama |-> llama, piped |-> f.piped, loadFailed |-> f.loadFailed,
    outcome |-> f.outcome ]

score_label_by_flags(self, text, load, outcome) ==
  LET f == score_finbert(self, text, load, outcome)
      llama == IF self.use_llama THEN score_llama(self, text) ELSE None
      r1 == IF IsNone(f.ret) THEN NeutralResult
            ELSE [ score |-> Val(f.ret).score, model_used |-> "finbert",
                   raw |-> [finbert |-> f.ret, llama3 |-> None] ]
      r2 == IF self.use_llama
              THEN [r1 EXCEPT !.model_used = "finbert+llama3"]
              ELSE r1
  IN  ScoreReturn(f, llama, Some(r2))

(* SentimentEngine.score.  The halving is integer division here; it is in  *)
(* the branch taken only when score_llama returns a result.                *)
score(self, text, load, outcome) ==
  LET f == score_finbert(self, text, load, outcome)
      llama == IF self.use_llama THEN score_llama(self, text) ELSE None
      r1 == IF IsNone(f.ret) THEN NeutralResult
            ELSE [ score |-> Val(f.ret).score, model_used |-> "finbert",
                   raw |-> [finbert |-> f.ret, llama3 |-> None] ]
      r2 == IF IsNone(llama) THEN r1
            ELSE [ score |-> (r1.score + Val(llama).score) \div 2,
                   model_used |-> "finbert+llama3",
                   raw |-> [r1.raw EXCEPT !.llama3 = llama] ]
  IN  IF f.raised THEN ScoreReturn(f, None, None) ELSE ScoreReturn(f, llama, Some(r2))

InitEngine ==
  /\ svcArgs = NoArgs
  /\ svc = Some(TradeSignalService(None, None, None))
  /\ sigIn = None
  /\ sigOut = None
  /\ call = [c \in Callers |-> IdleCall]
  /\ started = 0
  /\ rows = <<>>
  /\ cbKey = FALSE
  /\ latest = None
  /\ eng = NoEngine
  /\ alp = NoStream
  /\ NoFeeds

EngineConstruct ==
  /\ IsNone(eng)
  /\ \E use_finbert \in BOOLEAN, use_llama \in BOOLEAN :
       eng' = Some([self |-> SentimentEngine(use_finbert, use_llama), last |-> None])
  /\ UNCHANGED <<sigVars, toolVars, pipeVars, alp, feedVars>>

(* one score(text) call; last keeps what the call did until the caller     *)
(* has used the result                                                     *)
EngineScore ==
  /\ ~IsNone(eng)
  /\ IsNone(Val(eng).last)
  /\ \E text \in EngineTexts, load \in LoadOutcomes, outcome \in PipeOutcomes :
       LET s == score(Val(eng).self, text, load, outcome)
       IN  eng' = Some([ self |-> s.self,
                         last |-> Some([ text |-> text, before |-> Val(eng).self,
                                         did |-> s ]) ])
  /\ UNCHANGED <<sigVars, toolVars, pipeVars, alp, feedVars>>

(* the caller is done with the result; the engine keeps its pipeline *)
EngineReturn ==
  /\ ~IsNone(eng)
  /\ ~IsNone(Val(eng).last)
  /\ eng' = Some([Val(eng) EXCEPT !.last = None])
  /\ UNCHANGED <<sigVars, toolVars, pipeVars, alp, feedVars>>

NextEngine == EngineConstruct \/ EngineScore \/ EngineReturn

SpecEngine == InitEngine /\ [][NextEngine]_vars

(* ========== services/data_ingestion/alpaca_news_service.py ========== *)
MaxFrameLen == 2

(* JSON values of a payload field: the key is absent, or it carries null   *)
(* or a string                                                             *)
Absent == [t |-> "absent", v |-> ""]
Null == [t |-> "null", v |-> ""]
Str(s) == [t |-> "str", v |-> s]

IsoZ == "2024-01-01T00:00:00Z"
IsoOffset == "2024-01-01T00:00:00+00:00"

IdValues == {Absent, Null, Str(""), Str("a1")}
KeyValues == {Absent, Str("k1")}
TsValues == {Absent, Str("garbage"), Str(IsoZ)}

(* the news objects a frame may carry *)
Payloads ==
  [ id : IdValues, key : KeyValues, headline : {Str("x")}, summary : {Absent},
    created_at : TsValues ]

NoPayload ==
  [id |-> Absent, key |-> Absent, headline |-> Absent, summary |-> Absent,
   created_at |-> Absent]

(* the items of a frame: JSON objects, and a value that is not an object *)
FrameItems ==
  {[isDict |-> TRUE, raw |-> p] : p \in Payloads}
    \cup {[isDict |-> FALSE, raw |-> NoPayload]}

(* a stream frame after json.loads: not valid JSON, one top-level value,   *)
(* or a top-level list                                                     *)
Frames ==
  {[kind |-> "invalid", items |-> <<>>]}
    \cup {[kind |-> "single", items |-> <<i>>] : i \in FrameItems}
    \cup {[kind |-> "list", items |-> s] :
            s \in UNION {[1..n -> FrameItems] : n \in 0..MaxFrameLen}}

(* config.settings as the adapter reads it; ALPACA_STREAM_NEWS_URL is not  *)
(* an attribute of Settings unless the environment adds it                 *)
StreamSettings ==
  { [ALPACA_API_KEY |-> "K", ALPACA_SECRET_KEY |-> "S", ALPACA_STREAM_NEWS_URL |-> Absent],
    [ALPACA_API_KEY |-> "K", ALPACA_SECRET_KEY |-> "S", ALPACA_STREAM_NEWS_URL |-> Str("")],
    [ALPACA_API_KEY |-> "K", ALPACA_SECRET_KEY |-> "S", ALPACA_STREAM_NEWS_URL |-> Str("wss://news")] }

(* the settings start() depends on: each credential set or empty *)
CredentialSettings ==
  [ ALPACA_API_KEY : {"", "K"}, ALPACA_SECRET_KEY : {"", "S"},
    ALPACA_STREAM_NEWS_URL : {Str("")} ]

SANDBOX_URL == "wss://stream.data.sandbox.alpaca.markets/v1beta1/news"

(* AlpacaNewsStreamService.__init__; None when the attribute lookup raises *)
AlpacaNewsStreamService(settings) ==
  IF settings.ALPACA_STREAM_NEWS_URL.t = "absent" THEN None
  ELSE Some([ running |-> FALSE, ws |-> None, thread |-> None,
              key |-> settings.ALPACA_API_KEY, secret |-> settings.ALPACA_SECRET_KEY,
              base_url |-> IF settings.ALPACA_STREAM_NEWS_URL.v = "" THEN SANDBOX_URL
                           ELSE settings.ALPACA_STREAM_NEWS_URL.v ])

(* raw.get(key, default) *)
raw_get(raw, key, default) == IF raw[key].t = "absent" THEN default ELSE raw[key]

(* str(value) *)
py_str(value) == IF value.t = "null" THEN "None" ELSE value.v

(* s.replace("Z", "+00:00") on the timestamps above *)
replace_z(s) == IF s = IsoZ THEN IsoOffset ELSE s

(* datetime.fromisoformat: None stands for the ValueError it raises *)
fromisoformat(s) == IF s = IsoOffset THEN Some(IsoOffset) ELSE None

(* AlpacaNewsStreamService._parse_ts *)
parse_ts(s) ==
  IF s.t # "str" \/ s.v = "" THEN None
  ELSE fromisoformat(replace_z(s.v))

(* AlpacaNewsStreamService._to_news_item; nothing in it raises, so it      *)
(* returns an item for every dict                                          *)
to_news_item(raw) ==
  Some([ source |-> "alpaca",
         article_id |-> py_str(raw_get(raw, "id", raw_get(raw, "key", Str("")))),
         headline |-> raw_get(raw, "headline", Str("")),
         summary |-> raw_get(raw, "summary", Null),
         created_at |-> parse_ts(raw_get(raw, "created_at", Null)),
         raw |-> raw ])

(* AlpacaNewsStreamService._on_message: the events passed to on_news, in   *)
(* order.  raiseAt is the on_news call that raises (0: none does); the     *)
(* except around the loop ends the frame there.                            *)
on_message(frame, raiseAt) ==
  LET dicts == SelectSeq(frame.items, LAMBDA item : item.isDict)
      made == [i \in 1..Len(dicts) |-> to_news_item(dicts[i].raw)]
      news == SelectSeq(made, LAMBDA n : ~IsNone(n))
      calls == [i \in 1..Len(news) |-> Val(news[i])]
  IN  IF frame.kind = "invalid" THEN <<>>
      ELSE IF raiseAt \in 1..Len(calls) THEN SubSeq(calls, 1, raiseAt)
      ELSE calls

InitAlpaca ==
  /\ svcArgs = NoArgs
  /\ svc = Some(TradeSignalService(None, None, None))
  /\ sigIn = None
  /\ sigOut = None
  /\ call = [c \in Callers |-> IdleCall]
  /\ started = 0
  /\ rows = <<>>
  /\ cbKey = FALSE
  /\ latest = None
  /\ eng = NoEngine
  /\ alp = NoStream
  /\ NoFeeds

(* main.py line 75: AlpacaNewsStreamService(on_news=pipeline.process).    *)
(* websocket says whether the websocket-client import at module load       *)
(* succeeded; threads are the stream threads start() has created, and      *)
(* startRet what the last start() returned.                                *)
AlpacaConstructWith(settingsSet, websocketSet) ==
  /\ IsNone(alp)
  /\ \E settings \in settingsSet, websocket \in websocketSet :
       alp' = Some([ self |-> AlpacaNewsStreamService(settings), last |-> None,
                     websocket |-> websocket, threads |-> <<>>, startRet |-> None,
                     \* history: stop() has returned and start() was not called since
                     stopped |-> FALSE ])
  /\ UNCHANGED <<sigVars, toolVars, pipeVars, eng, feedVars>>

AlpacaConstruct == AlpacaConstructWith(StreamSettings, {TRUE})

(* the websocket thread hands one frame to _on_message; last keeps what    *)
(* the handler did with it until the next frame                            *)
AlpacaMessage ==
  /\ ~IsNone(alp)
  /\ ~IsNone(Val(alp).self)
  /\ IsNone(Val(alp).last)
  /\ \E frame \in Frames, raiseAt \in 0..MaxFrameLen :
       alp' = Some([ Val(alp) EXCEPT !.last =
                       Some([ frame |-> frame,
                              raiseAt |-> IF raiseAt \in 1..Len(on_message(frame, raiseAt))
                                            THEN raiseAt ELSE 0,
                              delivered |-> on_message(frame, raiseAt) ]) ])
  /\ UNCHANGED <<sigVars, toolVars, pipeVars, eng, feedVars>>

AlpacaMessageDone ==
  /\ ~IsNone(alp)
  /\ ~IsNone(Val(alp).last)
  /\ alp' = Some([Val(alp) EXCEPT !.last = None])
  /\ UNCHANGED <<sigVars, toolVars, pipeVars, eng, feedVars>>

(* ---- start / stop and the stream thread ---- *)
MaxThreads == 2
MaxEvents == 2

Constructed == ~IsNone(alp) /\ ~IsNone(Val(alp).self)
Self == Val(Val(alp).self)
Threads == Val(alp).threads

NewThread == [pc |-> "run", done |-> 0, closeReq |-> FALSE]

start_key_only ==
  /\ Constructed
  /\ Len(Threads) < MaxThreads
  /\ IF Self.key = "" \/ ~Val(alp).websocket
       THEN alp' = Some([Val(alp) EXCEPT !.startRet = Some(FALSE)])
       ELSE alp' = Some([Val(alp) EXCEPT
                           !.self = Some([Self EXCEPT !.thread = Some(Len(Threads) + 1)]),
                           !.threads = Append(@, NewThread),
                           !.startRet = Some(TRUE),
                           !.stopped = FALSE])
  /\ UNCHANGED <<sigVars, toolVars, pipeVars, eng, feedVars>>

(* AlpacaNewsStreamService.start, lines 101-122.  Nothing in it looks at   *)
(* _running or _thread, so every call with credentials creates a thread.   *)
AlpacaStart ==
  /\ Constructed
  /\ Len(Threads) < MaxThreads
  /\ IF Self.key = "" \/ Self.secret = "" \/ ~Val(alp).websocket
       THEN alp' = Some([Val(alp) EXCEPT !.startRet = Some(FALSE)])
       ELSE alp' = Some([Val(alp) EXCEPT
                           !.self = Some([Self EXCEPT !.thread = Some(Len(Threads) + 1)]),
                           !.threads = Append(@, NewThread),
                           !.startRet = Some(TRUE),
                           !.stopped = FALSE])
  /\ UNCHANGED <<sigVars, toolVars, pipeVars, eng, feedVars>>

(* run(), line 110: self._running = True *)
AlpacaRunSetRunning(t) ==
  /\ Constructed
  /\ t \in 1..Len(Threads)
  /\ Threads[t].pc = "run"
  /\ alp' = Some([Val(alp) EXCEPT
                    !.self = Some([Self EXCEPT !.running = TRUE]),
                    !.threads[t].pc = "mk_ws"])
  /\ UNCHANGED <<sigVars, toolVars, pipeVars, eng, feedVars>>

(* run(), lines 111-118: self._ws = WebSocketApp(...); run_forever() opens *)
(* the connection                                                          *)
AlpacaRunConnect(t) ==
  /\ Constructed
  /\ t \in 1..Len(Threads)
  /\ Threads[t].pc = "mk_ws"
  /\ alp' = Some([Val(alp) EXCEPT
                    !.self = Some([Self EXCEPT !.ws = Some(t)]),
                    !.threads[t].pc = "forever"])
  /\ UNCHANGED <<sigVars, toolVars, pipeVars, eng, feedVars>>

(* the connection of thread t receives the next source event and           *)
(* _on_message calls on_news with it                                       *)
AlpacaOnNewsBegin(t) ==
  /\ Constructed
  /\ t \in 1..Len(Threads)
  /\ Threads[t].pc = "forever"
  /\ ~Threads[t].closeReq
  /\ Threads[t].done < MaxEvents
  /\ alp' = Some([Val(alp) EXCEPT !.threads[t].pc = "on_news"])
  /\ UNCHANGED <<sigVars, toolVars, pipeVars, eng, feedVars>>

(* that on_news call returns (or raises into the except of _on_message) *)
AlpacaOnNewsEnd(t) ==
  /\ Constructed
  /\ t \in 1..Len(Threads)
  /\ Threads[t].pc = "on_news"
  /\ alp' = Some([Val(alp) EXCEPT !.threads[t].pc = "forever",
                                  !.threads[t].done = @ + 1])
  /\ UNCHANGED <<sigVars, toolVars, pipeVars, eng, feedVars>>

(* the connection of thread t closes (dropped by the peer or the network,  *)
(* or closed by stop()): _on_close, line 86, then run_forever and the      *)
(* thread end                                                              *)
AlpacaOnClose(t) ==
  /\ Constructed
  /\ t \in 1..Len(Threads)
  /\ Threads[t].pc = "forever"
  /\ alp' = Some([Val(alp) EXCEPT
                    !.self = Some([Self EXCEPT !.running = FALSE]),
                    !.threads[t].pc = "dead"])
  /\ UNCHANGED <<sigVars, toolVars, pipeVars, eng, feedVars>>

(* AlpacaNewsStreamService.stop, lines 124-131 *)
AlpacaStop ==
  /\ Constructed
  /\ alp' = Some([Val(alp) EXCEPT
                    !.stopped = TRUE,
                    !.self = Some([Self EXCEPT !.running = FALSE, !.ws = None]),
                    !.threads = [t \in 1..Len(Threads) |->
                                   IF Self.ws = Some(t)
                                     THEN [Threads[t] EXCEPT !.closeReq = TRUE]
                                     ELSE Threads[t]]])
  /\ UNCHANGED <<sigVars, toolVars, pipeVars, eng, feedVars>>

AlpacaThread(t) ==
  \/ AlpacaRunSetRunning(t)
  \/ AlpacaRunConnect(t)
  \/ AlpacaOnNewsBegin(t)
  \/ AlpacaOnNewsEnd(t)
  \/ AlpacaOnClose(t)

NextStream ==
  \/ AlpacaConstructWith(CredentialSettings, BOOLEAN)
  \/ AlpacaStart
  \/ AlpacaStop
  \/ \E t \in 1..MaxThreads : AlpacaThread(t)

SpecStream == InitAlpaca /\ [][NextStream]_vars

NextAlpaca == AlpacaConstruct \/ AlpacaMessage \/ AlpacaMessageDone

SpecAlpaca == InitAlpaca /\ [][NextAlpaca]_vars

(* ============ services/data_ingestion/twitter_service.py ============ *)
(* tw holds the service (self), the TWITTER_BEARER_TOKEN setting, the      *)
(* stream threads start() has created, where the one caller of start/stop  *)
(* stands (callerPc), and what the last start() returned.                  *)
BearerTokens == {"", "T"}

TwitterStreamService == [running |-> FALSE, thread |-> None, listener |-> None]

TwConstructed == ~IsNone(tw)
TwSelf == Val(tw).self
TwThreads == Val(tw).threads

InitTwitter ==
  /\ svcArgs = NoArgs
  /\ svc = Some(TradeSignalService(None, None, None))
  /\ sigIn = None
  /\ sigOut = None
  /\ call = [c \in Callers |-> IdleCall]
  /\ started = 0
  /\ rows = <<>>
  /\ cbKey = FALSE
  /\ latest = None
  /\ eng = NoEngine
  /\ alp = NoStream
  /\ NoFeeds

(* TwitterStreamService.__init__ *)
TwitterConstruct ==
  /\ IsNone(tw)
  /\ \E token \in BearerTokens :
       tw' = Some([ self |-> TwitterStreamService, token |-> token, threads |-> <<>>,
                    callerPc |-> "idle", startRet |-> None,
                    \* history: the branch the latest start() call took; stop()
                    \* has returned and start() was not called since
                    startBranch |-> "", stopped |-> FALSE ])
  /\ UNCHANGED <<sigVars, toolVars, pipeVars, eng, alp, rd, lc, rs>>

(* TwitterStreamService.start, lines 30-58: the two early returns, or the  *)
(* thread is created and started                                           *)
TwitterStart ==
  /\ TwConstructed
  /\ Val(tw).callerPc = "idle"
  /\ Len(TwThreads) < MaxThreads
  /\ IF TwSelf.running
       THEN tw' = Some([Val(tw) EXCEPT !.startRet = Some(TRUE),
                                       !.startBranch = "already_running"])
     ELSE IF Val(tw).token = ""
       THEN tw' = Some([Val(tw) EXCEPT !.startRet = Some(FALSE),
                                       !.startBranch = "no_token"])
     ELSE tw' = Some([Val(tw) EXCEPT
                        !.self.thread = Some(Len(TwThreads) + 1),
                        !.threads = Append(@, NewThread),
                        !.callerPc = "set_running",
                        !.startRet = None,
                        !.startBranch = "thread_started",
                        !.stopped = FALSE])
  /\ UNCHANGED <<sigVars, toolVars, pipeVars, eng, alp, rd, lc, rs>>

(* TwitterStreamService.start, lines 59-60: self._running = True; return   *)
TwitterStartSetRunning ==
  /\ TwConstructed
  /\ Val(tw).callerPc = "set_running"
  /\ tw' = Some([Val(tw) EXCEPT !.self.running = TRUE,
                                !.callerPc = "idle",
                                !.startRet = Some(TRUE)])
  /\ UNCHANGED <<sigVars, toolVars, pipeVars, eng, alp, rd, lc, rs>>

(* run(), lines 40-51: the listener is created and filter() connects *)
TwitterRunFilter(t) ==
  /\ TwConstructed
  /\ t \in 1..Len(TwThreads)
  /\ TwThreads[t].pc = "run"
  /\ tw' = Some([Val(tw) EXCEPT !.self.listener = Some(t),
                                !.threads[t].pc = "filter"])
  /\ UNCHANGED <<sigVars, toolVars, pipeVars, eng, alp, rd, lc, rs>>

(* on_tweet: a tweet arrives on the stream of thread t and on_post is      *)
(* called with it                                                          *)
TwitterOnPost(t) ==
  /\ TwConstructed
  /\ t \in 1..Len(TwThreads)
  /\ TwThreads[t].pc = "filter"
  /\ ~TwThreads[t].closeReq
  /\ TwThreads[t].done < MaxEvents
  /\ tw' = Some([Val(tw) EXCEPT !.threads[t].done = @ + 1])
  /\ UNCHANGED <<sigVars, toolVars, pipeVars, eng, alp, rd, lc, rs>>

(* run(), lines 52-55: the listener constructor or filter() raises, or     *)
(* filter() returns because the stream was disconnected; finally sets      *)
(* self._running = False and the thread ends                               *)
TwitterRunFinally(t) ==
  /\ TwConstructed
  /\ t \in 1..Len(TwThreads)
  /\ TwThreads[t].pc \in {"run", "filter"}
  /\ tw' = Some([Val(tw) EXCEPT !.self.running = FALSE,
                                !.threads[t].pc = "dead"])
  /\ UNCHANGED <<sigVars, toolVars, pipeVars, eng, alp, rd, lc, rs>>

(* TwitterStreamService.stop, lines 62-70 *)
TwitterStop ==
  /\ TwConstructed
  /\ Val(tw).callerPc = "idle"
  /\ tw' = Some([Val(tw) EXCEPT
                   !.stopped = TRUE,
                   !.self.running = FALSE,
                   !.threads = [t \in 1..Len(TwThreads) |->
                                  IF TwSelf.listener = Some(t)
                                    THEN [TwThreads[t] EXCEPT !.closeReq = TRUE]
                                    ELSE TwThreads[t]]])
  /\ UNCHANGED <<sigVars, toolVars, pipeVars, eng, alp, rd, lc, rs>>

TwitterThread(t) == TwitterRunFilter(t) \/ TwitterOnPost(t) \/ TwitterRunFinally(t)

NextTwitter ==
  \/ TwitterConstruct
  \/ TwitterStart
  \/ TwitterStartSetRunning
  \/ TwitterStop
  \/ \E t \in 1..MaxThreads : TwitterThread(t)

SpecTwitter == InitTwitter /\ [][NextTwitter]_vars

(* the push adapters, one under study at a time *)
NextPush ==
  \/ IsNone(tw) /\ NextStream
  \/ IsNone(alp) /\ NextTwitter

SpecPush == InitTwitter /\ [][NextPush]_vars

(* the steps a started stream thread takes by itself: run() goes on to     *)
(* connect, a callback returns, a connection that was asked to close       *)
(* closes; the caller of start() reaches its next line                     *)
AlpacaProceeds(t) ==
  \/ AlpacaRunSetRunning(t)
  \/ AlpacaRunConnect(t)
  \/ AlpacaOnNewsEnd(t)
  \/ Threads[t].closeReq /\ AlpacaOnClose(t)

TwitterProceeds(t) ==
  \/ TwitterRunFilter(t)
  \/ TwThreads[t].closeReq /\ TwitterRunFinally(t)

(* the push adapters with their threads scheduled *)
SpecStop ==
  /\ InitTwitter
  /\ [][NextPush]_vars
  /\ \A t \in 1..MaxThreads :
       /\ WF_vars(IsNone(tw) /\ Constructed /\ t <= Len(Threads) /\ AlpacaProceeds(t))
       /\ WF_vars(IsNone(alp) /\ TwConstructed /\ t <= Len(TwThreads) /\ TwitterProceeds(t))
  /\ WF_vars(IsNone(alp) /\ TwitterStartSetRunning)

(* ============ services/data_ingestion/reddit_service.py ============ *)
MaxListing == 1
MaxCycles == 3

(* the service is configured with three subreddits *)
Subreddits == <<"wallstreetbets", "options", "stocks">>
SubIdx == 1..Len(Subreddits)

PostIds == {"p1", "p2"}

(* a submission of a listing; ok says whether _submission_to_social_post   *)
(* can read it (it returns None when reading an attribute raises)          *)
Submissions == [id : PostIds, ok : BOOLEAN]

Listings(S, limit) == UNION {[1..n -> S] : n \in 0..limit}

(* what one subreddit does in one fetch: the submissions its listing       *)
(* yields, and whether it then raises (with an empty listing: whether the  *)
(* request itself raises)                                                  *)
SubOutcomes == [listing : Listings(Submissions, MaxListing), fails : BOOLEAN]
FetchOutcomes == [SubIdx -> SubOutcomes]

(* the poll loop is run with limit_per_sub = 1, on submissions that all    *)
(* convert                                                                 *)
limit_per_sub == 1
PollOutcomes ==
  [SubIdx -> [listing : Listings([id : PostIds, ok : {TRUE}], limit_per_sub),
              fails : BOOLEAN]]

(* the SocialPost fields the poll loop reads, and the subreddit kept in raw *)
SocialPost(post_id, subreddit) == [post_id |-> post_id, subreddit |-> subreddit]

(* lines 100-115: the posts appended for one subreddit *)
posts_of(k, outcome) ==
  LET converted == SelectSeq(outcome.listing, LAMBDA submission : submission.ok)
  IN  [i \in 1..Len(converted) |-> SocialPost(converted[i].id, Subreddits[k])]

RECURSIVE fetch_until_failure(_, _)
fetch_until_failure(k, outcomes) ==
  IF k > Len(Subreddits) THEN <<>>
  ELSE IF outcomes[k].fails THEN posts_of(k, outcomes[k])
  ELSE posts_of(k, outcomes[k]) \o fetch_until_failure(k + 1, outcomes)

RECURSIVE fetch_from(_, _)
fetch_from(k, outcomes) ==
  IF k > Len(Subreddits) THEN <<>>
  ELSE posts_of(k, outcomes[k]) \o fetch_from(k + 1, outcomes)

fetch_recent_abort(credentials, outcomes) ==
  IF ~credentials THEN [raised |-> TRUE, posts |-> <<>>]
  ELSE [raised |-> FALSE, posts |-> fetch_until_failure(1, outcomes)]

(* RedditService.fetch_recent.  _get_reddit raises ValueError when the     *)
(* client id or secret is not set; a subreddit's exception is caught       *)
(* inside the loop over the subreddits.                                    *)
fetch_recent(credentials, outcomes) ==
  IF ~credentials THEN [raised |-> TRUE, posts |-> <<>>]
  ELSE [raised |-> FALSE, posts |-> fetch_from(1, outcomes)]

(* lines 246-249: the posts of a batch that pass `post_id not in seen`,    *)
(* each id being added to seen when it passes                              *)
RECURSIVE unseen(_, _)
unseen(posts, seen) ==
  IF posts = <<>> THEN <<>>
  ELSE IF Head(posts).post_id \in seen THEN unseen(Tail(posts), seen)
  ELSE <<Head(posts)>> \o unseen(Tail(posts), seen \cup {Head(posts).post_id})

PostIdsOf(posts) == {posts[i].post_id : i \in 1..Len(posts)}

(* One pass of the while loop of run_poll_loop, lines 244-251.  raiseAt is *)
(* the on_post call that raises (0: none does); the except around the      *)
(* batch ends the pass there, after the id was added to seen.              *)
poll_cycle(seen, fetch, raiseAt) ==
  LET fresh == unseen(fetch.posts, seen)
      calls == IF raiseAt \in 1..Len(fresh) THEN SubSeq(fresh, 1, raiseAt) ELSE fresh
  IN  [ seen |-> seen \cup PostIdsOf(calls),
        calls |-> calls,
        raised |-> fetch.raised \/ raiseAt \in 1..Len(fresh) ]

NoRedditCall == [fetch |-> [raised |-> FALSE, posts |-> <<>>], outcomes |-> None,
                 calls |-> <<>>, raised |-> FALSE, seenBefore |-> {}]

InitReddit ==
  /\ svcArgs = NoArgs
  /\ svc = Some(TradeSignalService(None, None, None))
  /\ sigIn = None
  /\ sigOut = None
  /\ call = [c \in Callers |-> IdleCall]
  /\ started = 0
  /\ rows = <<>>
  /\ cbKey = FALSE
  /\ latest = None
  /\ eng = NoEngine
  /\ alp = NoStream
  /\ NoFeeds

(* RedditService(...) with REDDIT_CLIENT_ID / REDDIT_CLIENT_SECRET set or  *)
(* not.  pc is where run_poll_loop stands ("idle": not called), seen its   *)
(* local set, invoked the number of on_post calls made per post id,        *)
(* failures the number of passes that ended in the except branch.          *)
RedditConstruct ==
  /\ IsNone(rd)
  /\ \E credentials \in BOOLEAN :
       rd' = Some([ credentials |-> credentials, pc |-> "idle", seen |-> {},
                    invoked |-> [p \in PostIds |-> 0], cycles |-> 0,
                    failures |-> 0, last |-> None ])
  /\ UNCHANGED <<sigVars, toolVars, pipeVars, eng, alp, tw, lc, rs>>

(* one direct fetch_recent call; last keeps its outcome until the caller   *)
(* has used it                                                             *)
RedditFetch ==
  /\ ~IsNone(rd)
  /\ Val(rd).pc = "idle"
  /\ IsNone(Val(rd).last)
  /\ \E outcomes \in FetchOutcomes :
       rd' = Some([Val(rd) EXCEPT !.last =
                     Some([NoRedditCall EXCEPT
                             !.fetch = fetch_recent(Val(rd).credentials, outcomes),
                             !.outcomes = IF Val(rd).credentials THEN Some(outcomes)
                                          ELSE None])])
  /\ UNCHANGED <<sigVars, toolVars, pipeVars, eng, alp, tw, lc, rs>>

RedditFetchReturn ==
  /\ ~IsNone(rd)
  /\ Val(rd).pc = "idle"
  /\ ~IsNone(Val(rd).last)
  /\ rd' = Some([Val(rd) EXCEPT !.last = None])
  /\ UNCHANGED <<sigVars, toolVars, pipeVars, eng, alp, tw, lc, rs>>

NextFetch == RedditConstruct \/ RedditFetch \/ RedditFetchReturn

SpecFetch == InitReddit /\ [][NextFetch]_vars

(* run_poll_loop is called: seen = set(), lines 239-241 *)
RedditPollStart ==
  /\ ~IsNone(rd)
  /\ Val(rd).pc = "idle"
  /\ IsNone(Val(rd).last)
  /\ rd' = Some([Val(rd) EXCEPT !.pc = "cycle"])
  /\ UNCHANGED <<sigVars, toolVars, pipeVars, eng, alp, tw, lc, rs>>

(* lines 244-251: one pass of the try block *)
RedditPollCycle ==
  /\ ~IsNone(rd)
  /\ Val(rd).pc = "cycle"
  /\ Val(rd).cycles < MaxCycles
  /\ \E outcomes \in PollOutcomes, raiseAt \in 0..Cardinality(PostIds) :
       LET fetch == fetch_recent(Val(rd).credentials, outcomes)
           pass == poll_cycle(Val(rd).seen, fetch, raiseAt)
       IN  rd' = Some([Val(rd) EXCEPT
                         !.pc = "sleep",
                         !.cycles = @ + 1,
                         !.failures = @ + (IF pass.raised THEN 1 ELSE 0),
                         !.seen = pass.seen,
                         !.invoked = [p \in PostIds |->
                                        @[p] + Cardinality({i \in 1..Len(pass.calls) :
                                                              pass.calls[i].post_id = p})],
                         !.last = Some([ fetch |-> fetch, outcomes |-> None,
                                         calls |-> pass.calls, raised |-> pass.raised,
                                         seenBefore |-> Val(rd).seen ])])
  /\ UNCHANGED <<sigVars, toolVars, pipeVars, eng, alp, tw, lc, rs>>

(* lines 252-253: time.sleep(interval_seconds) returns *)
RedditPollSleep ==
  /\ ~IsNone(rd)
  /\ Val(rd).pc = "sleep"
  /\ rd' = Some([Val(rd) EXCEPT !.pc = "cycle"])
  /\ UNCHANGED <<sigVars, toolVars, pipeVars, eng, alp, tw, lc, rs>>

NextPoll == RedditConstruct \/ RedditPollStart \/ RedditPollCycle \/ RedditPollSleep

SpecPoll == InitReddit /\ [][NextPoll]_vars

(* =========== services/data_ingestion/lunarcrush_service.py =========== *)
(* how the GET of _get ends: it raises or returns an error status, it      *)
(* returns an empty body, or it returns data                               *)
ApiResponses == {"error", "empty", "data"}

(* LunarCrushService.get_social_buzz (with _get and get_assets_meta):      *)
(* None without API key, on a failed request and on empty data             *)
get_social_buzz(api_key, response) ==
  IF ~api_key \/ response # "data" THEN None
  ELSE Some([source |-> "lunarcrush", data |-> response])

(* poll_lunarcrush_interval is called: svc = LunarCrushService() with      *)
(* LUNARCRUSH_API_KEY set or not                                           *)
LunarPollStart ==
  /\ IsNone(lc)
  /\ \E api_key \in BOOLEAN :
       lc' = Some([ api_key |-> api_key, pc |-> "cycle", cycles |-> 0,
                    failures |-> 0, last |-> None ])
  /\ UNCHANGED <<sigVars, toolVars, pipeVars, eng, alp, tw, rd, rs>>

lunar_cycle_fatal ==
  /\ ~IsNone(lc)
  /\ Val(lc).pc = "cycle"
  /\ Val(lc).cycles < MaxCycles
  /\ \E response \in ApiResponses, raises \in BOOLEAN :
       LET buzz == get_social_buzz(Val(lc).api_key, response)
           raised == ~IsNone(buzz) /\ raises
       IN  lc' = Some([Val(lc) EXCEPT
                         !.pc = IF raised THEN "dead" ELSE "sleep",
                         !.cycles = @ + 1,
                         !.failures = @ + (IF raised THEN 1 ELSE 0),
                         !.last = Some([ buzz |-> buzz,
                                         calls |-> IF IsNone(buzz) THEN <<>> ELSE <<Val(buzz)>>,
                                         raised |-> raised ])])
  /\ UNCHANGED <<sigVars, toolVars, pipeVars, eng, alp, tw, rd, rs>>

(* lines 91-96: one pass of the try block; raises says whether the         *)
(* callback raises when it is called                                       *)
LunarPollCycle ==
  /\ ~IsNone(lc)
  /\ Val(lc).pc = "cycle"
  /\ Val(lc).cycles < MaxCycles
  /\ \E response \in ApiResponses, raises \in BOOLEAN :
       LET buzz == get_social_buzz(Val(lc).api_key, response)
           raised == ~IsNone(buzz) /\ raises
       IN  lc' = Some([Val(lc) EXCEPT
                         !.pc = "sleep",
                         !.cycles = @ + 1,
                         !.failures = @ + (IF raised THEN 1 ELSE 0),
                         !.last = Some([ buzz |-> buzz,
                                         calls |-> IF IsNone(buzz) THEN <<>> ELSE <<Val(buzz)>>,
                                         raised |-> raised ])])
  /\ UNCHANGED <<sigVars, toolVars, pipeVars, eng, alp, tw, rd, rs>>

(* line 97: time.sleep(max(1, interval_seconds)) returns *)
LunarPollSleep ==
  /\ ~IsNone(lc)
  /\ Val(lc).pc = "sleep"
  /\ lc' = Some([Val(lc) EXCEPT !.pc = "cycle"])
  /\ UNCHANGED <<sigVars, toolVars, pipeVars, eng, alp, tw, rd, rs>>

NextLunar == LunarPollStart \/ LunarPollCycle \/ LunarPollSleep

(* the two poll loops, one under study at a time; each is a thread that    *)
(* keeps being scheduled, and its requests and callbacks return            *)
NextPollLoops ==
  \/ IsNone(lc) /\ NextPoll
  \/ IsNone(rd) /\ NextLunar

SpecPollLoops ==
  /\ InitReddit
  /\ [][NextPollLoops]_vars
  /\ WF_vars(IsNone(lc) /\ RedditPollCycle)
  /\ WF_vars(IsNone(lc) /\ RedditPollSleep)
  /\ WF_vars(IsNone(rd) /\ LunarPollCycle)
  /\ WF_vars(IsNone(rd) /\ LunarPollSleep)

(* ---- RedisState called directly: dashboard routes, risk management ---- *)
(* How a read ends: as in Faults, and "value_error" when json.loads (or    *)
(* the client) raises TypeError or ValueError, which the get_* methods     *)
(* catch next to RedisError.                                               *)
ReadFaults == Faults \cup {"value_error"}

(* the dicts handed to set_latest_sentiment / set_latest_buzz *)
SentimentPayloads == {[score |-> 5], [score |-> -5]}
BuzzPayloads == {[galaxy_score |-> 1], [galaxy_score |-> 2]}

(* RedisState.get_latest_sentiment: json.loads(raw) if raw else None *)
get_latest_sentiment(stored, fault) ==
  IF fault = "none" THEN [raised |-> FALSE, value |-> stored]
  ELSE IF fault \in {"redis_error", "value_error"} THEN [raised |-> FALSE, value |-> None]
  ELSE [raised |-> TRUE, value |-> None]

set_latest_buzz_unguarded(old, payload, fault) ==
  IF fault = "none" THEN [raised |-> FALSE, stored |-> Some(payload)]
  ELSE [raised |-> TRUE, stored |-> old]

(* RedisState.set_latest_buzz: the value afterwards, whether it raised *)
set_latest_buzz(old, payload, fault) ==
  IF fault = "none" THEN [raised |-> FALSE, stored |-> Some(payload)]
  ELSE IF fault = "redis_error" THEN [raised |-> FALSE, stored |-> old]
  ELSE [raised |-> TRUE, stored |-> old]

(* RedisState.get_latest_buzz *)
get_latest_buzz(stored, fault) ==
  IF fault = "none" THEN [raised |-> FALSE, value |-> stored]
  ELSE IF fault \in {"redis_error", "value_error"} THEN [raised |-> FALSE, value |-> None]
  ELSE [raised |-> TRUE, value |-> None]

(* RedisState(): no client yet, nothing under the buzz key; armed is       *)
(* history read by the properties only: a set_circuit_breaker(True) went   *)
(* through and since then the key has not expired and                      *)
(* set_circuit_breaker(False) has not been called                          *)
RedisState == [ _client |-> FALSE, buzz |-> None, armed |-> FALSE, last |-> None ]

(* the three keys as Redis holds them *)
Store == [ circuit_breaker |-> cbKey, latest_sentiment |-> latest,
           latest_buzz |-> Val(rs).buzz ]

(* the record of a finished call: what it was, how Redis answered, what    *)
(* it returned, the keys before and after                                  *)
Finished(op, fault, r, value, after) ==
  Some([ op |-> op, fault |-> fault, raised |-> r.raised, value |-> value,
         armed |-> Val(rs).armed, before |-> Store, after |-> after ])

InitRedis ==
  /\ svcArgs = NoArgs
  /\ svc = Some(TradeSignalService(None, None, None))
  /\ sigIn = None
  /\ sigOut = None
  /\ call = [c \in Callers |-> IdleCall]
  /\ started = 0
  /\ rows = <<>>
  /\ cbKey = FALSE
  /\ latest = None
  /\ eng = NoEngine
  /\ alp = NoStream
  /\ NoFeeds

(* lines 23-24 *)
RedisConstruct ==
  /\ IsNone(rs)
  /\ rs' = Some(RedisState)
  /\ UNCHANGED <<sigVars, toolVars, pipeVars, eng, alp, tw, rd, lc>>

(* lines 37-47 *)
CallSetLatestSentiment ==
  /\ ~IsNone(rs)
  /\ \E payload \in SentimentPayloads, fault \in Faults :
       LET r == set_latest_sentiment(latest, payload, fault)
       IN  /\ latest' = r.stored
           /\ rs' = Some([Val(rs) EXCEPT
                !._client = TRUE,
                !.last = Finished("set_latest_sentiment", fault, r, None,
                                  [Store EXCEPT !.latest_sentiment = r.stored])])
  /\ UNCHANGED <<sigVars, toolVars, call, started, rows, cbKey, eng, alp, tw, rd, lc>>

(* lines 49-57 *)
CallGetLatestSentiment ==
  /\ ~IsNone(rs)
  /\ \E fault \in ReadFaults :
       LET r == get_latest_sentiment(latest, fault)
       IN  rs' = Some([Val(rs) EXCEPT
             !._client = TRUE,
             !.last = Finished("get_latest_sentiment", fault, r, r.value, Store)])
  /\ UNCHANGED <<sigVars, toolVars, pipeVars, eng, alp, tw, rd, lc>>

(* lines 59-69 *)
CallSetLatestBuzz ==
  /\ ~IsNone(rs)
  /\ \E payload \in BuzzPayloads, fault \in Faults :
       LET r == set_latest_buzz(Val(rs).buzz, payload, fault)
       IN  rs' = Some([Val(rs) EXCEPT
             !._client = TRUE,
             !.buzz = r.stored,
             !.last = Finished("set_latest_buzz", fault, r, None,
                               [Store EXCEPT !.latest_buzz = r.stored])])
  /\ UNCHANGED <<sigVars, toolVars, pipeVars, eng, alp, tw, rd, lc>>

(* lines 71-77 *)
CallGetLatestBuzz ==
  /\ ~IsNone(rs)
  /\ \E fault \in ReadFaults :
       LET r == get_latest_buzz(Val(rs).buzz, fault)
       IN  rs' = Some([Val(rs) EXCEPT
             !._client = TRUE,
             !.last = Finished("get_latest_buzz", fault, r, r.value, Store)])
  /\ UNCHANGED <<sigVars, toolVars, pipeVars, eng, alp, tw, rd, lc>>

(* lines 79-84 *)
CallCircuitBreakerTripped ==
  /\ ~IsNone(rs)
  /\ \E fault \in Faults :
       LET r == circuit_breaker_tripped(cbKey, fault)
       IN  rs' = Some([Val(rs) EXCEPT
             !._client = TRUE,
             !.last = Finished("circuit_breaker_tripped", fault, r, r.value, Store)])
  /\ UNCHANGED <<sigVars, toolVars, pipeVars, eng, alp, tw, rd, lc>>

(* lines 86-94 *)
CallSetCircuitBreaker(tripped) ==
  /\ ~IsNone(rs)
  /\ \E fault \in Faults :
       LET r == set_circuit_breaker(cbKey, tripped, fault)
       IN  /\ cbKey' = r.stored
           /\ rs' = Some([Val(rs) EXCEPT
                !._client = TRUE,
                !.armed = IF tripped THEN (fault = "none") \/ @ ELSE FALSE,
                !.last = Finished(IF tripped THEN "set_circuit_breaker(True)"
                                  ELSE "set_circuit_breaker(False)", fault, r, None,
                                  [Store EXCEPT !.circuit_breaker = r.stored])])
  /\ UNCHANGED <<sigVars, toolVars, call, started, rows, latest, eng, alp, tw, rd, lc>>

(* lines 96-102: the client's close() may raise anything, it is swallowed *)
CallClose ==
  /\ ~IsNone(rs)
  /\ Val(rs)._client
  /\ \E fault \in Faults :
       rs' = Some([Val(rs) EXCEPT
             !._client = FALSE,
             !.last = Finished("close", fault, [raised |-> FALSE], None, Store)])
  /\ UNCHANGED <<sigVars, toolVars, pipeVars, eng, alp, tw, rd, lc>>

(* ex=3600 / ex=300: a key that is set expires *)
RedisExpire ==
  /\ ~IsNone(rs)
  /\ \/ /\ cbKey
        /\ cbKey' = FALSE
        /\ rs' = Some([Val(rs) EXCEPT !.armed = FALSE])
        /\ UNCHANGED latest
     \/ /\ ~IsNone(latest)
        /\ latest' = None
        /\ UNCHANGED <<cbKey, rs>>
     \/ /\ ~IsNone(Val(rs).buzz)
        /\ rs' = Some([Val(rs) EXCEPT !.buzz = None])
        /\ UNCHANGED <<cbKey, latest>>
  /\ UNCHANGED <<sigVars, toolVars, call, started, rows, eng, alp, tw, rd, lc>>

NextRedis ==
  \/ RedisConstruct
  \/ CallSetLatestSentiment
  \/ CallGetLatestSentiment
  \/ CallSetLatestBuzz
  \/ CallGetLatestBuzz
  \/ CallCircuitBreakerTripped
  \/ \E tripped \in BOOLEAN : CallSetCircuitBreaker(tripped)
  \/ CallClose
  \/ RedisExpire

SpecRedis == InitRedis /\ [][NextRedis]_vars

(* ---- the adapters' SocialPost conversions ---- *)
(* Relevance scores are in ten-thousandths (0.2 is 2000); an attribute of  *)
(* a source object is missing, None, or a number.                          *)
MaxKeywords == 6
MaxCount == 1

NumAbsent == [t |-> "absent", n |-> 0]
NumNull == [t |-> "null", n |-> 0]
Num(n) == [t |-> "num", n |-> n]

(* getattr(obj, name, 0) or 0 *)
attr_or_zero(a) == IF a.t = "num" THEN a.n ELSE 0

(* metrics.get(name, 0): the default is used for a missing key only *)
dict_get(a) == IF a.t = "absent" THEN Some(0) ELSE IF a.t = "null" THEN None ELSE Some(a.n)

Min(a, b) == IF a <= b THEN a ELSE b

(* RedditService._relevance_score; keywords is len(keywords) *)
relevance_score(net_score, num_comments, keywords) ==
  Min(10000,
      2000 * keywords
        + (IF net_score > 0 THEN Min(4000, 20 * net_score) ELSE 0)
        + (IF num_comments > 0 THEN Min(2000, 50 * num_comments) ELSE 0))

(* TwitterStreamListener._compute_relevance: likes / 1000 * 0.1 capped at  *)
(* 0.3, retweets / 500 * 0.1 capped at 0.2                                 *)
compute_relevance(likes, rts, keywords) ==
  Min(10000,
      2000 * keywords
        + (IF likes > 0 THEN Min(3000, likes) ELSE 0)
        + (IF rts > 0 THEN Min(2000, 2 * rts) ELSE 0))

(* the engagement numbers a source reports: a negative net net_score (Reddit   *)
(* only), nothing, the documented example, a value past the cap            *)
Scores100 == {-5, 0, 100, 100 + 400 * MaxCount}
Counts == {0, 20, 20 + 30 * MaxCount}
CreatedValues == {NumAbsent, NumNull, Num(0), Num(1700)}

(* datetime.utcnow() / datetime.utcfromtimestamp(created) / the datetime   *)
(* tweepy parsed                                                           *)
utcnow == <<"utcnow">>
FromSource(created) == <<"source", created>>

RedditSubmissions ==
  [ score : {NumAbsent, NumNull} \cup {Num(n) : n \in Scores100},
    num_comments : {Num(n) : n \in Counts},
    num_crossposts : {NumAbsent, Num(1)},
    created_utc : CreatedValues,
    keywords : {0, 3, MaxKeywords},
    raises : {FALSE} ]
  \cup
  [ score : {Num(100)}, num_comments : {Num(20)}, num_crossposts : {NumAbsent},
    created_utc : {Num(1700)}, keywords : {3}, raises : {TRUE} ]

RedditComments ==
  [ body : {"", " ", "text"},
    score : {NumAbsent} \cup {Num(n) : n \in Scores100},
    created_utc : CreatedValues,
    keywords : {0, 3, MaxKeywords} ]

(* public_metrics: missing, None, or a dict of counters; created_at:       *)
(* missing, None (the field was not requested), or a datetime              *)
PublicMetrics ==
  {NumAbsent, NumNull}
  \cup { [ t |-> "dict", like_count |-> l, retweet_count |-> r,
           reply_count |-> c, impression_count |-> NumAbsent ] :
           l \in {NumAbsent} \cup {Num(n) : n \in Scores100 \ {-5}},
           r \in {NumAbsent, Num(20)},
           c \in {NumAbsent, Num(20)} }

Tweets ==
  [ public_metrics : PublicMetrics,
    created_at : {NumAbsent, NumNull, Num(1700)},
    keywords : {0, 3, MaxKeywords} ]

(* RedditService._submission_to_social_post *)
submission_to_social_post(submission) ==
  IF submission.raises THEN None
  ELSE LET created == submission.created_utc
           net_score == attr_or_zero(submission.score)
           num_comments == attr_or_zero(submission.num_comments)
       IN  Some([ source |-> "reddit",
                  timestamp |-> IF created.t = "num" /\ created.n # 0
                                  THEN Some(FromSource(created.n)) ELSE Some(utcnow),
                  likes |-> Some(net_score),
                  shares |-> Some(attr_or_zero(submission.num_crossposts)),
                  replies |-> Some(num_comments),
                  views |-> Some(0),
                  relevance_score |-> relevance_score(net_score, num_comments, submission.keywords) ])

(* RedditService._comment_to_social_post *)
comment_to_social_post(comment) ==
  IF comment.body \in {"", " "} THEN None
  ELSE LET created == comment.created_utc
           net_score == attr_or_zero(comment.score)
       IN  Some([ source |-> "reddit",
                  timestamp |-> IF created.t = "num" /\ created.n # 0
                                  THEN Some(FromSource(created.n)) ELSE Some(utcnow),
                  likes |-> Some(net_score),
                  shares |-> Some(0),
                  replies |-> Some(0),
                  views |-> Some(0),
                  relevance_score |-> relevance_score(net_score, 0, comment.keywords) ])

(* metrics = getattr(tweet, "public_metrics", {}) or {} *)
metrics_of(tweet) ==
  IF tweet.public_metrics.t = "dict" THEN tweet.public_metrics
  ELSE [ t |-> "dict", like_count |-> NumAbsent, retweet_count |-> NumAbsent,
         reply_count |-> NumAbsent, impression_count |-> NumAbsent ]

(* TwitterStreamListener._to_social_post: a counter that is None makes     *)
(* "likes > 0" raise TypeError, and the conversion returns None            *)
to_social_post(tweet) ==
  LET metrics == metrics_of(tweet)
      likes == dict_get(metrics.like_count)
      rts == dict_get(metrics.retweet_count)
  IN  IF IsNone(likes) \/ IsNone(rts) THEN None
      ELSE Some([ source |-> "twitter",
                  timestamp |-> IF tweet.created_at.t = "absent" THEN Some(utcnow)
                                ELSE IF tweet.created_at.t = "null" THEN None
                                ELSE Some(FromSource(tweet.created_at.n)),
                  likes |-> likes,
                  shares |-> rts,
                  replies |-> dict_get(metrics.reply_count),
                  views |-> dict_get(metrics.impression_count),
                  relevance_score |-> compute_relevance(Val(likes), Val(rts), tweet.keywords) ])

InitConvert ==
  /\ svcArgs = NoArgs
  /\ svc = Some(TradeSignalService(None, None, None))
  /\ sigIn = None
  /\ sigOut = None
  /\ call = [c \in Callers |-> IdleCall]
  /\ started = 0
  /\ rows = <<>>
  /\ cbKey = FALSE
  /\ latest = None
  /\ eng = NoEngine
  /\ alp = NoStream
  /\ NoFeeds

(* fetch_recent, line 102 *)
ConvertSubmission ==
  /\ IsNone(sp)
  /\ \E submission \in RedditSubmissions :
       sp' = Some([ adapter |-> "reddit", kind |-> "submission", item |-> submission,
                    post |-> submission_to_social_post(submission) ])
  /\ UNCHANGED <<sigVars, pipeVars, eng, alp, feedVars, mc>>

(* fetch_recent, lines 106-112 *)
ConvertComment ==
  /\ IsNone(sp)
  /\ \E comment \in RedditComments :
       sp' = Some([ adapter |-> "reddit", kind |-> "comment", item |-> comment,
                    post |-> comment_to_social_post(comment) ])
  /\ UNCHANGED <<sigVars, pipeVars, eng, alp, feedVars, mc>>

(* on_tweet, line 30 *)
ConvertTweet ==
  /\ IsNone(sp)
  /\ \E tweet \in Tweets :
       sp' = Some([ adapter |-> "twitter", kind |-> "tweet", item |-> tweet,
                    post |-> to_social_post(tweet) ])
  /\ UNCHANGED <<sigVars, pipeVars, eng, alp, feedVars, mc>>

(* the post, if any, has been handed on *)
ConvertReturn ==
  /\ ~IsNone(sp)
  /\ sp' = None
  /\ UNCHANGED <<sigVars, pipeVars, eng, alp, feedVars, mc>>

NextConvert == ConvertSubmission \/ ConvertComment \/ ConvertTweet \/ ConvertReturn

SpecConvert == InitConvert /\ [][NextConvert]_vars

(* ---- MetricsCollector.record_latency from several threads ---- *)
(* The module-level _metrics dict is shared by every thread and nothing    *)
(* locks it.  One operation name is recorded; objects are the stats dicts  *)
(* created so far, cur the one _metrics[operation] refers to.  A thread    *)
(* can be switched out between any two reads or writes of the shared       *)
(* dicts, so each read and each write is a step.                           *)
MaxRecords == 2
Recorders == {1, 2}
Latencies == {1, 3}

(* lines 41-47; min is float('inf'), written None here *)
NewStats == [count |-> 0, total |-> 0, min |-> None, max |-> 0,
             avg |-> [total |-> 0, count |-> 1]]

IdleRecorder == [pc |-> "idle", latency_ms |-> 0, stats |-> 0, tmp |-> 0]

(* utils/metrics.py line 128: metrics = MetricsCollector(), METRICS_ENABLED *)
MetricsCollector ==
  [ enabled |-> TRUE, objects |-> <<>>, cur |-> None,
    thr |-> [r \in Recorders |-> IdleRecorder],
    \* history: the values of the calls that have returned
    recorded |-> <<>>, begun |-> 0 ]

InitMetrics ==
  /\ svcArgs = NoArgs
  /\ svc = Some(TradeSignalService(None, None, None))
  /\ sigIn = None
  /\ sigOut = None
  /\ call = [c \in Callers |-> IdleCall]
  /\ started = 0
  /\ rows = <<>>
  /\ cbKey = FALSE
  /\ latest = None
  /\ eng = NoEngine
  /\ alp = NoStream
  /\ NoFeeds

MetricsConstruct ==
  /\ IsNone(mc)
  /\ mc' = Some(MetricsCollector)
  /\ UNCHANGED <<sigVars, pipeVars, eng, alp, feedVars, sp>>

Recorder(r) == Val(mc).thr[r]
At(r, pc) == ~IsNone(mc) /\ Recorder(r).pc = pc
Stats(r) == Val(mc).objects[Recorder(r).stats]

(* track_latency line 37: thread r calls record_latency(operation, v);     *)
(* lines 31-37                                                             *)
RecordBegin(r) ==
  /\ At(r, "idle")
  /\ Val(mc).begun < MaxRecords
  /\ \E v \in Latencies :
       mc' = Some([Val(mc) EXCEPT !.begun = @ + 1,
                                  !.thr[r] = [IdleRecorder EXCEPT !.pc = "check",
                                                                  !.latency_ms = v]])
  /\ UNCHANGED <<sigVars, pipeVars, eng, alp, feedVars, sp>>

(* line 40: if operation not in _metrics *)
RecordCheck(r) ==
  /\ At(r, "check")
  /\ mc' = Some([Val(mc) EXCEPT
                   !.thr[r].pc = IF IsNone(Val(mc).cur) THEN "init" ELSE "get"])
  /\ UNCHANGED <<sigVars, pipeVars, eng, alp, feedVars, sp>>

(* lines 41-47: _metrics[operation] = {...}, a new dict *)
RecordInit(r) ==
  /\ At(r, "init")
  /\ mc' = Some([Val(mc) EXCEPT
                   !.objects = Append(@, NewStats),
                   !.cur = Some(Len(Val(mc).objects) + 1),
                   !.thr[r].pc = "get"])
  /\ UNCHANGED <<sigVars, pipeVars, eng, alp, feedVars, sp>>

(* line 49: stats = _metrics[operation] *)
RecordGet(r) ==
  /\ At(r, "get")
  /\ mc' = Some([Val(mc) EXCEPT !.thr[r].stats = Val(Val(mc).cur),
                                !.thr[r].pc = "count_read"])
  /\ UNCHANGED <<sigVars, pipeVars, eng, alp, feedVars, sp>>

(* the read half of lines 50-53: the current value of a field is loaded *)
RecordRead(r) ==
  /\ ~IsNone(mc)
  /\ Recorder(r).pc \in {"count_read", "total_read", "min_read", "max_read"}
  /\ LET pc == Recorder(r).pc
         v == Recorder(r).latency_ms
     IN  mc' = Some([Val(mc) EXCEPT
               !.thr[r].tmp =
                  IF pc = "count_read" THEN Stats(r).count + 1
                  ELSE IF pc = "total_read" THEN Stats(r).total + v
                  ELSE IF pc = "min_read"
                    THEN (IF IsNone(Stats(r).min) THEN v ELSE Min(Val(Stats(r).min), v))
                  ELSE (IF Stats(r).max >= v THEN Stats(r).max ELSE v),
               !.thr[r].pc =
                  IF pc = "count_read" THEN "count_write"
                  ELSE IF pc = "total_read" THEN "total_write"
                  ELSE IF pc = "min_read" THEN "min_write"
                  ELSE "max_write"])
  /\ UNCHANGED <<sigVars, pipeVars, eng, alp, feedVars, sp>>

(* the write half of lines 50-53: the value computed from what was read    *)
(* is stored                                                               *)
RecordWrite(r) ==
  /\ ~IsNone(mc)
  /\ Recorder(r).pc \in {"count_write", "total_write", "min_write", "max_write"}
  /\ LET pc == Recorder(r).pc
         s == Recorder(r).stats
         tmp == Recorder(r).tmp
     IN  mc' = Some([Val(mc) EXCEPT
               !.objects[s] =
                  IF pc = "count_write" THEN [@ EXCEPT !.count = tmp]
                  ELSE IF pc = "total_write" THEN [@ EXCEPT !.total = tmp]
                  ELSE IF pc = "min_write" THEN [@ EXCEPT !.min = Some(tmp)]
                  ELSE [@ EXCEPT !.max = tmp],
               !.thr[r].pc =
                  IF pc = "count_write" THEN "total_read"
                  ELSE IF pc = "total_write" THEN "min_read"
                  ELSE IF pc = "min_write" THEN "max_read"
                  ELSE "avg"])
  /\ UNCHANGED <<sigVars, pipeVars, eng, alp, feedVars, sp>>

(* line 54: avg = total / count, kept as the two numbers; the call returns *)
RecordAvg(r) ==
  /\ At(r, "avg")
  /\ LET s == Recorder(r).stats
     IN  mc' = Some([Val(mc) EXCEPT
               !.objects[s].avg = [total |-> Stats(r).total, count |-> Stats(r).count],
               !.recorded = Append(@, Recorder(r).latency_ms),
               !.thr[r] = IdleRecorder])
  /\ UNCHANGED <<sigVars, pipeVars, eng, alp, feedVars, sp>>

RecordLatency(r) ==
  \/ RecordBegin(r)
  \/ RecordCheck(r)
  \/ RecordInit(r)
  \/ RecordGet(r)
  \/ RecordRead(r)
  \/ RecordWrite(r)
  \/ RecordAvg(r)

NextMetrics == MetricsConstruct \/ \E r \in Recorders : RecordLatency(r)

SpecMetrics == InitMetrics /\ [][NextMetrics]_vars

(* ======================= properties ======================= *)
Sides == {"buy", "sell", "hold"}
SigCalled == ~IsNone(sigOut)

\* C1: a signal call with circuit_breaker_tripped = true returns side hold
\* with reason circuit_breaker, whatever the score, the confidence (absent
\* included) and the thresholds of the service.
C1_TrippedReturnsHold ==
  (SigCalled /\ Val(sigIn).circuit_breaker_tripped)
    => (Val(sigOut).side = "hold" /\ Val(sigOut).reason = "circuit_breaker")

\* C1 witness: tripped, no confidence given, a score at or above the bullish
\* threshold, and the call has returned.
C1_Witness ==
  /\ SigCalled
  /\ Val(sigIn).circuit_breaker_tripped
  /\ IsNone(Val(sigIn).confidence)
  /\ Val(sigIn).sentiment_score >= Val(svc).threshold_bullish
  /\ Val(sigOut).reason = "circuit_breaker"

\* C2: signal returns the outcome of the first rule that matches, in the
\* order tripped, low confidence (absent confidence is 1.0), bullish, bearish,
\* neutral; a score matching both threshold rules gives buy.
C2_FirstMatchWins ==
  SigCalled =>
    LET in == Val(sigIn)
        out == <<Val(sigOut).side, Val(sigOut).reason>>
        conf == IF IsNone(in.confidence) THEN DefaultConfidence ELSE Val(in.confidence)
        tripped == in.circuit_breaker_tripped
        lowConf == conf < Val(svc).min_confidence
        bullish == in.sentiment_score >= Val(svc).threshold_bullish
        bearish == in.sentiment_score <= Val(svc).threshold_bearish
    IN  /\ tripped => out = <<"hold", "circuit_breaker">>
        /\ (~tripped /\ lowConf) => out = <<"hold", "low_confidence">>
        /\ (~tripped /\ ~lowConf /\ bullish) => out = <<"buy", "sentiment_bullish">>
        /\ (~tripped /\ ~lowConf /\ ~bullish /\ bearish) => out = <<"sell", "sentiment_bearish">>
        /\ (~tripped /\ ~lowConf /\ ~bullish /\ ~bearish) => out = <<"hold", "neutral">>

\* C2 witness: a score that satisfies both threshold rules, breaker not
\* tripped, confidence sufficient: the call returned buy.
C2_Witness ==
  /\ SigCalled
  /\ ~Val(sigIn).circuit_breaker_tripped
  /\ Val(sigIn).sentiment_score >= Val(svc).threshold_bullish
  /\ Val(sigIn).sentiment_score <= Val(svc).threshold_bearish
  /\ Val(sigOut).side = "buy"

Given(arg, default) == IF IsNone(arg) THEN default ELSE Val(arg)

\* C3: the constructed service holds exactly the thresholds and the minimum
\* confidence passed to the constructor, 0 included; a default is used only
\* for an omitted argument.
C3_UsesConstructorArgs ==
  ~IsNone(svc) =>
    /\ Val(svc).threshold_bullish = Given(svcArgs.threshold_bullish, SENTIMENT_THRESHOLD_BULLISH)
    /\ Val(svc).threshold_bearish = Given(svcArgs.threshold_bearish, SENTIMENT_THRESHOLD_BEARISH)
    /\ Val(svc).min_confidence = Given(svcArgs.min_confidence, MIN_CONFIDENCE_SCORE)

Returned(c) == call[c].pc = "done"
HasText(c) == Returned(c) /\ ~IsNone(call[c].signal)

\* C4: a process call on an event with text that ran entirely while the
\* circuit-breaker key was set returns, and publishes, a signal with side
\* hold, also when Redis did not answer.
C4_TrippedForcesHold ==
  \A c \in Callers :
    (HasText(c) /\ call[c].cbHeld)
      => /\ Val(call[c].signal).side = "hold"
         /\ Val(call[c].published).signal_side = "hold"

IsBlank(o) == IsNone(o) \/ \A i \in 1..Len(Val(o)) : Val(o)[i] = " "
BlankEvent(c) ==
  /\ ~IsNone(call[c].news)
  /\ IsBlank(Val(call[c].news).headline)
  /\ IsBlank(Val(call[c].news).summary)

\* C6: for an event whose headline and summary are both absent, empty or
\* whitespace-only, process returns three None values and does nothing else:
\* no scorer call, no circuit-breaker read, no insert, no publish.
C6_EmptyEventIsNoOp ==
  \A c \in Callers :
    BlankEvent(c)
      => /\ Returned(c)
         /\ call[c].result = Some(NoResult)
         /\ call[c].scored = <<>>
         /\ call[c].cbReads = 0
         /\ call[c].inserts = 0
         /\ IsNone(call[c].published)

\* C6 witness: a returned call whose headline is whitespace-only and whose
\* summary is absent, after an earlier call left a row and a latest value.
C6_Witness ==
  /\ Returned(1)
  /\ BlankEvent(1)
  /\ Val(call[1].news).headline = Some(<<" ">>)
  /\ rows # <<>>
  /\ ~IsNone(latest)

\* C7: when insert_sentiment raises, process still returns the sentiment
\* result and a valid signal with sentiment_row_id None, and it still tries
\* the publish, with the score and the signal of this call.
C7_InsertFailureNonFatal ==
  \A c \in Callers :
    call[c].insertRaised
      => /\ call[c].pc \in {"publish", "done"}
         /\ Returned(c)
              => /\ Val(call[c].result).sentiment_result = call[c].sentiment_result
                 /\ ~IsNone(call[c].sentiment_result)
                 /\ Val(call[c].result).signal = call[c].signal
                 /\ Val(call[c].signal).side \in Sides
                 /\ IsNone(Val(call[c].result).sentiment_row_id)
                 /\ ~IsNone(call[c].published)
                 /\ Val(call[c].published).score = Val(call[c].sentiment_result).score
                 /\ Val(call[c].published).signal_side = Val(call[c].signal).side
                 /\ Val(call[c].published).signal_reason = Val(call[c].signal).reason

\* C7 witness: the insert raised, the call returned and its payload is the
\* latest value in Redis.
C7_Witness ==
  /\ Returned(1)
  /\ call[1].insertRaised
  /\ rows = <<>>
  /\ latest = call[1].published
  /\ ~IsNone(latest)

\* C8: when the publish fails (RedisError inside set_latest_sentiment) or
\* raises, process does not raise: it returns the sentiment result, the
\* signal and the id of the row it inserted, and that row is still there.
C8_PublishFailureNonFatal ==
  \A c \in Callers :
    call[c].publishFault # "none"
      => /\ Returned(c)
         /\ Val(call[c].result).sentiment_result = call[c].sentiment_result
         /\ ~IsNone(call[c].sentiment_result)
         /\ Val(call[c].result).signal = call[c].signal
         /\ ~IsNone(call[c].signal)
         /\ Val(call[c].result).sentiment_row_id = call[c].row_id
         /\ ~call[c].insertRaised
              => /\ ~IsNone(call[c].row_id)
                 /\ Val(call[c].row_id) \in 1..Len(rows)
                 /\ rows[Val(call[c].row_id)].id = Val(call[c].row_id)
                 /\ rows[Val(call[c].row_id)].source_id = Val(call[c].news).article_id

\* C8 witness: the publish raised an exception that is not a RedisError
\* after the row was inserted, and the call returned.
C8_Witness ==
  /\ Returned(1)
  /\ call[1].publishFault = "other"
  /\ ~IsNone(call[1].row_id)
  /\ IsNone(latest)

\* C9: process never lets an exception reach its caller, whichever of the
\* scorer, the circuit-breaker read, the insert or the publish fails.
C9_NeverRaises == \A c \in Callers : call[c].pc # "raised"

\* C10: every event with text handed to process has a sentiment row once the
\* delivery is over (process makes the only attempt; nothing retries).
C10_EveryEventPersisted ==
  \A c \in Callers :
    HasText(c)
      => \E i \in 1..Len(rows) : rows[i].source_id = Val(call[c].news).article_id

\* C11: every process call returns even when one collaborator never
\* answers: no call stays blocked in a collaborator.
C11_NeverBlocked == \A c \in Callers : call[c].pc # "blocked"

PublishStep(c) == call[c].pc = "publish" /\ call'[c].pc = "done"
PayloadOf(c, p) ==
  /\ p.source_id = Val(call[c].news).article_id
  /\ p.source = Val(call[c].news).source
  /\ p.score = Val(call[c].sentiment_result).score
  /\ p.model_used = Val(call[c].sentiment_result).model_used
  /\ p.signal_side = Val(call[c].signal).side
  /\ p.signal_reason = Val(call[c].signal).reason

\* C12: under any interleaving of concurrent process calls the latest
\* sentiment value is the whole payload of one call: a publish that Redis
\* accepts leaves exactly that call's payload, and the value changes only by
\* such a publish or by expiry, so the write that lands last wins.
C12_LastWriteWins ==
  [][/\ \A c \in Callers :
          (PublishStep(c) /\ call'[c].publishFault = "none")
            => (latest' = call'[c].published /\ PayloadOf(c, Val(latest')))
     /\ latest' # latest
          => \/ IsNone(latest')
             \/ \E c \in Callers :
                  PublishStep(c) /\ latest' = call'[c].published]_vars

\* C12 witness: two calls have both published different payloads and the
\* value in Redis is the payload of caller 1.
C12_Witness ==
  /\ Returned(1) /\ Returned(2)
  /\ call[1].publishFault = "none" /\ call[2].publishFault = "none"
  /\ call[1].published # call[2].published
  /\ latest = call[1].published

InsertOk(c) ==
  call[c].pc = "insert" /\ call'[c].pc = "publish" /\ ~call'[c].insertRaised

\* C13: persistence is append-only and nothing deduplicates: every process
\* call whose insert succeeds adds exactly one row carrying its article_id,
\* also when that id is already in the table; rows are added by nothing
\* else, and no existing row changes or disappears.
C13_AppendOnlyNoDedup ==
  [][/\ Len(rows') >= Len(rows)
     /\ SubSeq(rows', 1, Len(rows)) = rows
     /\ \A c \in Callers :
          InsertOk(c)
            => /\ Len(rows') = Len(rows) + 1
               /\ rows'[Len(rows')].source_id = Val(call[c].news).article_id
     /\ Len(rows') # Len(rows) => \E c \in Callers : InsertOk(c)]_vars

\* C13 witness: two rows with the same article_id.
C13_Witness ==
  /\ Len(rows) = 2
  /\ rows[1].source_id = rows[2].source_id

Healthy(c) ==
  /\ HasText(c)
  /\ call[c].cbFault = "none"
  /\ ~call[c].insertRaised
  /\ call[c].publishFault = "none"

\* C14: for an event with text processed with every collaborator healthy,
\* the inserted row and the published payload carry the event's source and
\* article_id and the scorer's score and model_used; the payload's signal
\* side and reason are those of the returned signal; the payload headline is
\* the first 200 characters of the event headline; the returned
\* sentiment_row_id is the id of the inserted row.
C14_RowAndPayloadMatchEvent ==
  \A c \in Callers :
    Healthy(c) =>
      LET news == Val(call[c].news)
          res == Val(call[c].result)
          p == Val(call[c].published)
          h == OrEmpty(news.headline)
      IN  /\ ~IsNone(res.sentiment_row_id)
          /\ \E i \in 1..Len(rows) :
               /\ rows[i].id = Val(res.sentiment_row_id)
               /\ rows[i].source = news.source
               /\ rows[i].source_id = news.article_id
               /\ rows[i].score = Val(res.sentiment_result).score
               /\ rows[i].model_used = Val(res.sentiment_result).model_used
          /\ p.source = news.source
          /\ p.source_id = news.article_id
          /\ p.score = Val(res.sentiment_result).score
          /\ p.model_used = Val(res.sentiment_result).model_used
          /\ p.signal_side = Val(res.signal).side
          /\ p.signal_reason = Val(res.signal).reason
          /\ Len(p.headline) = (IF Len(h) < HeadlineMax THEN Len(h) ELSE HeadlineMax)
          /\ \A i \in 1..Len(p.headline) : p.headline[i] = h[i]

\* C14 witness: a healthy call on a headline longer than 200 characters has
\* returned, and its payload in Redis carries 200 of them.
C14_Witness ==
  /\ Healthy(1)
  /\ Len(OrEmpty(Val(call[1].news).headline)) > HeadlineMax
  /\ latest = call[1].published
  /\ Len(Val(latest).headline) = HeadlineMax

(* a string without its leading and trailing whitespace, by positions *)
Trimmed(o) ==
  LET s == OrEmpty(o)
      inked == {i \in 1..Len(s) : s[i] # " "}
  IN  IF inked = {} THEN <<>>
      ELSE SubSeq(s, CHOOSE i \in inked : \A j \in inked : i <= j,
                     CHOOSE i \in inked : \A j \in inked : j <= i)

ExpectedText(news) ==
  IF Trimmed(news.headline) # <<>> /\ Trimmed(news.summary) # <<>>
    THEN Trimmed(news.headline) \o <<" ">> \o Trimmed(news.summary)
  ELSE IF Trimmed(news.headline) # <<>> THEN Trimmed(news.headline)
  ELSE IF Trimmed(news.summary) # <<>> THEN Trimmed(news.summary)
  ELSE <<>>

\* C15: the text scored for an event is the trimmed headline, a space and
\* the trimmed summary when both are non-empty after trimming, otherwise
\* whichever of the two is non-empty, otherwise empty; the scorer is called
\* at most once per event, with exactly that text, never with empty text,
\* and it has been called by the time a call on an event with text returns.
C15_ScoredText ==
  \A c \in Callers :
    ~IsNone(call[c].news) =>
      LET text == ExpectedText(Val(call[c].news))
      IN  /\ call[c].scored \in {<<>>, <<text>>}
          /\ text = <<>> => call[c].scored = <<>>
          /\ (text # <<>> /\ call[c].pc \notin {"score", "blocked"})
               => call[c].scored = <<text>>

\* C15 witness: a call on an event whose headline and summary both carry
\* padding has returned after the scorer was given the joined trimmed text.
C15_Witness ==
  /\ Returned(1)
  /\ Val(call[1].news).headline = Some(<<"x", " ">>)
  /\ Val(call[1].news).summary = Some(<<" ", "y">>)
  /\ call[1].scored = << <<"x", " ", "y">> >>

Scored == ~IsNone(eng) /\ ~IsNone(Val(eng).last)
LastCall == Val(Val(eng).last)
IsNeutral(result) ==
  /\ result.score = 0
  /\ result.model_used = "none"
  /\ IsNone(result.raw.finbert) /\ IsNone(result.raw.llama3)

\* C16: SentimentEngine.score on empty or whitespace-only text returns
\* score 0.0 with model_used none and an empty raw, and the FinBERT
\* pipeline is not called and no backend returns a result for that text.
C16_BlankTextShortCircuits ==
  (Scored /\ strip(LastCall.text) = <<>>)
    => /\ ~IsNone(LastCall.did.result)
       /\ IsNeutral(Val(LastCall.did.result))
       /\ LastCall.did.piped = <<>>
       /\ IsNone(LastCall.did.fin) /\ IsNone(LastCall.did.llama)

\* C16 witness: whitespace-only text was scored by an engine whose FinBERT
\* pipeline is loaded, and the result is neutral.
C16_Witness ==
  /\ Scored
  /\ LastCall.text = <<" ">>
  /\ Val(eng).self.finbert_pipeline = "loaded"
  /\ IsNeutral(Val(LastCall.did.result))

BackendFailed(did) ==
  \/ did.loadFailed
  \/ /\ ~IsNone(did.outcome)
     /\ (Val(did.outcome).kind # "labels" \/ Val(did.outcome).out = <<>>)

\* C17: SentimentEngine.score never raises; when the FinBERT load fails, or
\* the pipeline raises, returns unreadable items or returns nothing, the
\* result is score 0.0 with model_used none.
C17_ScoreNeverRaises ==
  Scored =>
    /\ ~LastCall.did.raised
    /\ ~IsNone(LastCall.did.result)
    /\ BackendFailed(LastCall.did)
         => /\ Val(LastCall.did.result).score = 0
            /\ Val(LastCall.did.result).model_used = "none"

\* C17 witness: the pipeline was called with a text and raised, and score
\* returned the neutral result.
C17_Witness ==
  /\ Scored
  /\ LastCall.did.piped # <<>>
  /\ LastCall.did.outcome = Some([kind |-> "raises", out |-> <<>>])
  /\ ~IsNone(LastCall.did.result)
  /\ Val(LastCall.did.result).model_used = "none"

\* C18: the score returned by SentimentEngine.score lies in [-1, 1] for
\* every backend output.
C18_ScoreInRange ==
  (Scored /\ ~IsNone(LastCall.did.result))
    => Val(LastCall.did.result).score \in -10..10

Backends == {"finbert", "llama3"}
Contributed(did) ==
  {b \in Backends : ~IsNone(IF b = "finbert" THEN did.fin ELSE did.llama)}
ScoreSum(did) ==
  (IF IsNone(did.fin) THEN 0 ELSE Val(did.fin).score)
    + (IF IsNone(did.llama) THEN 0 ELSE Val(did.llama).score)
Joined(bs) ==
  IF bs = Backends THEN "finbert+llama3"
  ELSE IF bs = {"finbert"} THEN "finbert"
  ELSE IF bs = {"llama3"} THEN "llama3"
  ELSE "none"
RawKeys(raw) ==
  {b \in Backends : ~IsNone(IF b = "finbert" THEN raw.finbert ELSE raw.llama3)}

\* C19: with both backends enabled, the returned score is the arithmetic
\* mean of the scores of the backends that returned a result (0.0 when none
\* did), model_used names exactly those backends joined by '+', and the
\* keys of raw are the same backends.
C19_MeanOfContributors ==
  (Scored /\ LastCall.before.use_finbert /\ LastCall.before.use_llama)
    => LET did == LastCall.did
           bs == Contributed(did)
       IN  /\ ~IsNone(did.result)
           /\ Cardinality(bs) * Val(did.result).score = ScoreSum(did)
           /\ bs = {} => Val(did.result).score = 0
           /\ Val(did.result).model_used = Joined(bs)
           /\ RawKeys(Val(did.result).raw) = bs

\* C19 witness: an engine with both backends enabled scored a text for
\* which FinBERT returned a non-zero score.
C19_Witness ==
  /\ Scored
  /\ LastCall.before.use_finbert /\ LastCall.before.use_llama
  /\ ~IsNone(LastCall.did.fin)
  /\ Val(LastCall.did.fin).score # 0
  /\ Val(LastCall.did.result).model_used = "finbert"

FrameHandled == ~IsNone(alp) /\ ~IsNone(Val(alp).last)
LastFrame == Val(Val(alp).last)
HasIdentifyingKey(raw) ==
  \/ raw.id.t = "str" /\ raw.id.v # ""
  \/ raw.key.t = "str" /\ raw.key.v # ""

\* C20: on_news is never called for a payload that has neither a non-empty
\* id nor a non-empty key.
C20_NoKeylessDelivery ==
  FrameHandled =>
    \A i \in 1..Len(LastFrame.delivered) :
      HasIdentifyingKey(LastFrame.delivered[i].raw)

\* C21: every delivered event has a creation time: when the payload's
\* created_at is missing or unparseable the event carries the ingestion
\* time instead of nothing.
C21_TimestampFallsBack ==
  FrameHandled =>
    \A i \in 1..Len(LastFrame.delivered) :
      ~IsNone(LastFrame.delivered[i].created_at)

(* the payloads of the object items of a frame, in frame order *)
RECURSIVE ObjectRaws(_)
ObjectRaws(items) ==
  IF items = <<>> THEN <<>>
  ELSE (IF Head(items).isDict THEN <<Head(items).raw>> ELSE <<>>)
         \o ObjectRaws(Tail(items))

DeliveredRaws(delivered) == [i \in 1..Len(delivered) |-> delivered[i].raw]

\* C22: handling a frame delivers exactly the object items of the frame,
\* once each and in order, whether the frame is a list or a single value
\* and whatever non-object items stand between them; a frame that is not
\* valid JSON delivers nothing; handling a frame leaves the service as it
\* was.
C22_FrameDelivery ==
  [][(FrameHandled' /\ ~FrameHandled)
       => /\ Val(alp').self = Val(alp).self
          /\ DeliveredRaws(LastFrame'.delivered) = ObjectRaws(LastFrame'.frame.items)
          /\ LastFrame'.frame.kind = "invalid" => LastFrame'.delivered = <<>>]_vars

(* on_news calls thread t has begun, and those that have completed *)
Begun(t) == Threads[t].done + (IF Threads[t].pc = "on_news" THEN 1 ELSE 0)
Ended(t) == Threads[t].done

\* C23: events reach the coordinator in source order: whenever an on_news
\* call for the j-th source event has begun, every on_news call of the
\* adapter for an earlier source event has completed.
C23_SourceOrder ==
  Constructed =>
    \A t1 \in 1..Len(Threads), t2 \in 1..Len(Threads) :
      \A j \in 1..Begun(t1) : \A i \in 1..(j - 1) :
        Begun(t2) >= i => Ended(t2) >= i

\* C24: once the stream threads of a TwitterStreamService have all
\* terminated and no start() call is under way, its running flag is false.
C24_ClosedMeansNotRunning ==
  (/\ TwConstructed
   /\ TwThreads # <<>>
   /\ \A t \in 1..Len(TwThreads) : TwThreads[t].pc = "dead"
   /\ Val(tw).callerPc = "idle")
    => ~TwSelf.running

StartRefused(ret) == ret \in {None, Some(FALSE)}

\* C25: a push adapter whose required credentials are missing never
\* starts: every start() returns false, no stream thread or connection
\* exists, the running flag is false and the event callback is never
\* called (Alpaca: API key or secret empty; Twitter: bearer token empty).
C25_NoStartWithoutCredentials ==
  /\ (Constructed /\ (Self.key = "" \/ Self.secret = ""))
       => /\ StartRefused(Val(alp).startRet)
          /\ Threads = <<>>
          /\ IsNone(Self.thread) /\ IsNone(Self.ws)
          /\ ~Self.running
          /\ IsNone(Val(alp).last)
  /\ (TwConstructed /\ Val(tw).token = "")
       => /\ StartRefused(Val(tw).startRet)
          /\ TwThreads = <<>>
          /\ IsNone(TwSelf.thread) /\ IsNone(TwSelf.listener)
          /\ ~TwSelf.running
          /\ Val(tw).callerPc = "idle"

\* C25 witness: start() was called on a Twitter service without bearer
\* token and returned false.
C25_Witness ==
  /\ TwConstructed
  /\ Val(tw).token = ""
  /\ Val(tw).startRet = Some(FALSE)
  /\ TwThreads = <<>>

LastReddit == Val(Val(rd).last)
Polled == ~IsNone(rd) /\ Val(rd).pc # "idle" /\ ~IsNone(Val(rd).last)
AtMostOncePerPost == ~IsNone(rd) => \A p \in PostIds : Val(rd).invoked[p] <= 1

\* C26: within one run_poll_loop run on_post is called at most once per
\* post id over all cycles, and in every cycle it is called for every
\* fetched post whose id was not seen before.
C26_OncePerNewPost ==
  /\ AtMostOncePerPost
  /\ Polled =>
       \A i \in 1..Len(LastReddit.fetch.posts) :
         LastReddit.fetch.posts[i].post_id \notin LastReddit.seenBefore
           => \E j \in 1..Len(LastReddit.calls) :
                LastReddit.calls[j].post_id = LastReddit.fetch.posts[i].post_id

Fetched ==
  ~IsNone(rd) /\ Val(rd).pc = "idle" /\ ~IsNone(Val(rd).last)
    /\ ~IsNone(LastReddit.outcomes)

RECURSIVE ConvertedIds(_)
ConvertedIds(listing) ==
  IF listing = <<>> THEN <<>>
  ELSE (IF Head(listing).ok THEN <<Head(listing).id>> ELSE <<>>)
         \o ConvertedIds(Tail(listing))

ReturnedIdsOf(posts, subreddit) ==
  LET from == SelectSeq(posts, LAMBDA post : post.subreddit = subreddit)
  IN  [i \in 1..Len(from) |-> from[i].post_id]

\* C27: a fetch_recent call in which subreddits fail (the request raises,
\* the listing raises part-way, a submission does not convert) still
\* returns, for every configured subreddit, the posts of the submissions
\* that subreddit yielded and that convert, in order; the call does not
\* raise.
C27_OtherSubredditsReturned ==
  Fetched =>
    /\ ~LastReddit.fetch.raised
    /\ \A k \in SubIdx :
         ReturnedIdsOf(LastReddit.fetch.posts, Subreddits[k])
           = ConvertedIds(Val(LastReddit.outcomes)[k].listing)

\* C27 witness: the second of three subreddits failed and the posts of the
\* first and of the third were returned.
C27_Witness ==
  /\ Fetched
  /\ Val(LastReddit.outcomes)[2].fails
  /\ ~Val(LastReddit.outcomes)[1].fails /\ ~Val(LastReddit.outcomes)[3].fails
  /\ ReturnedIdsOf(LastReddit.fetch.posts, Subreddits[1]) # <<>>
  /\ ReturnedIdsOf(LastReddit.fetch.posts, Subreddits[3]) # <<>>

RedditCycleStep == ~IsNone(rd) /\ ~IsNone(rd') /\ Val(rd').cycles = Val(rd).cycles + 1
LunarCycleStep == ~IsNone(lc) /\ ~IsNone(lc') /\ Val(lc').cycles = Val(lc).cycles + 1
PassFailed ==
  \/ ~IsNone(rd) /\ Val(rd).cycles < MaxCycles
       /\ ~IsNone(Val(rd).last) /\ Val(Val(rd).last).raised
  \/ ~IsNone(lc) /\ Val(lc).cycles < MaxCycles
       /\ ~IsNone(Val(lc).last) /\ Val(Val(lc).last).raised
PassDue ==
  \/ ~IsNone(rd) /\ Val(rd).pc = "cycle"
  \/ ~IsNone(lc) /\ Val(lc).pc = "cycle"
PassDone ==
  \/ ~IsNone(rd) /\ Val(rd).pc = "sleep"
  \/ ~IsNone(lc) /\ Val(lc).pc = "sleep"

\* C28: a failed poll cycle is not terminal.  After a pass in which the
\* fetch or the callback raised, the Reddit and the LunarCrush loop go to
\* sleep and then start the next pass; and every pass in which nothing
\* raises delivers what it fetched: every post with an unseen id (Reddit),
\* the buzz payload (LunarCrush).
C28_FailedCycleNotTerminal ==
  /\ [][/\ RedditCycleStep
            => /\ Val(rd').pc = "sleep"
               /\ ~Val(Val(rd').last).raised
                    => PostIdsOf(Val(Val(rd').last).calls)
                         = PostIdsOf(Val(Val(rd').last).fetch.posts) \ Val(rd).seen
        /\ LunarCycleStep
            => /\ Val(lc').pc = "sleep"
               /\ ~Val(Val(lc').last).raised
                    => Val(Val(lc').last).calls
                         = (IF IsNone(Val(Val(lc').last).buzz) THEN <<>>
                            ELSE <<Val(Val(Val(lc').last).buzz)>>)]_vars
  /\ PassFailed ~> (PassDue /\ <>PassDone)

\* C28 witness: a Reddit poll loop had a pass that raised, and its latest
\* pass, a later one, raised nothing and delivered a new post.
C28_Witness ==
  /\ Polled
  /\ Val(rd).failures > 0
  /\ ~LastReddit.raised
  /\ LastReddit.calls # <<>>
LastRedis == Val(Val(rs).last)
Called(op) == ~IsNone(rs) /\ ~IsNone(Val(rs).last) /\ LastRedis.op = op

\* C29: the circuit-breaker flag follows its lifecycle: a
\* circuit_breaker_tripped() call returns true when a set_circuit_breaker(True)
\* went through and since then the key has not expired and
\* set_circuit_breaker(False) has not been called, and false otherwise
\* (reads during which the client raises something other than RedisError
\* left aside).
C29_BreakerLifecycle ==
  (Called("circuit_breaker_tripped") /\ LastRedis.fault # "other")
    => /\ ~LastRedis.raised
       /\ LastRedis.value = LastRedis.armed

\* C30: a RedisState call during which the Redis client raises RedisError
\* does not raise: a read returns None (False for the circuit breaker), a
\* write or a delete returns normally, and the three keys are as before.
C30_DegradesOnRedisError ==
  (~IsNone(rs) /\ ~IsNone(Val(rs).last) /\ LastRedis.fault = "redis_error")
    => /\ ~LastRedis.raised
       /\ LastRedis.after = LastRedis.before
       /\ LastRedis.op \in {"get_latest_sentiment", "get_latest_buzz"}
            => LastRedis.value = None
       /\ LastRedis.op = "circuit_breaker_tripped" => LastRedis.value = FALSE

\* C30 witness: with the breaker tripped and a buzz payload stored, a
\* set_latest_buzz call met a RedisError.
C30_Witness ==
  /\ Called("set_latest_buzz")
  /\ LastRedis.fault = "redis_error"
  /\ LastRedis.before.circuit_breaker
  /\ ~IsNone(LastRedis.before.latest_buzz)

Converted == ~IsNone(sp) /\ ~IsNone(Val(sp).post)
Post == Val(Val(sp).post)
Item == Val(sp).item

(* the engagement a source item reports: likes and comments *)
ItemLikes ==
  IF Val(sp).kind = "tweet" THEN Val(dict_get(metrics_of(Item).like_count))
  ELSE attr_or_zero(Item.score)
ItemComments ==
  IF Val(sp).kind = "tweet" THEN Val(dict_get(metrics_of(Item).reply_count))
  ELSE IF Val(sp).kind = "comment" THEN 0
  ELSE attr_or_zero(Item.num_comments)

\* C31: the relevance score of every post an adapter produces is
\* min(1.0, 0.2*|keywords| + min(0.4, 0.1*likes/50) + min(0.2, 0.05*comments/10)),
\* an engagement term added only for a positive counter, and lies in
\* [0, 1], for the Reddit and for the Twitter adapter.
C31_RelevanceFormula ==
  Converted
    => /\ Post.relevance_score
            = Min(10000, 2000 * Item.keywords
                           + (IF ItemLikes > 0 THEN Min(4000, 20 * ItemLikes) ELSE 0)
                           + (IF ItemComments > 0 THEN Min(2000, 50 * ItemComments) ELSE 0))
       /\ Post.relevance_score \in 0..10000

\* C32: every SocialPost an adapter produces has non-negative likes,
\* shares, replies and views, also for a Reddit submission or comment whose
\* net score is negative.
C32_NonNegativeEngagement ==
  Converted
    => \A counter \in {Post.likes, Post.shares, Post.replies, Post.views} :
         ~IsNone(counter) /\ Val(counter) >= 0

CreationTime ==
  IF Val(sp).kind = "tweet" THEN Item.created_at ELSE Item.created_utc

\* C33: every SocialPost an adapter produces has a timestamp, and when the
\* source item carries no creation time (the attribute is missing, or
\* present but empty) the timestamp is the ingestion time.
C33_TimestampSet ==
  Converted
    => /\ ~IsNone(Post.timestamp)
       /\ (CreationTime.t # "num" \/ CreationTime.n = 0)
            => Post.timestamp = Some(utcnow)

AllTerminated ==
  /\ TwConstructed
  /\ TwThreads # <<>>
  /\ \A t \in 1..Len(TwThreads) : TwThreads[t].pc = "dead"

\* C34: after the Twitter stream thread has terminated the service is
\* stopped: a start() call made when every stream thread of the service
\* has ended does not take the 'already running' return.
C34_RestartAfterTermination ==
  [][(AllTerminated /\ TwitterStart)
       => Val(tw').startBranch # "already_running"]_vars

(* the stream threads of an adapter that are alive and were not asked to    *)
(* close                                                                    *)
Active(threads) ==
  {t \in 1..Len(threads) : threads[t].pc # "dead" /\ ~threads[t].closeReq}

\* C35: after any sequence of start() and stop() calls on one push adapter
\* instance at most one stream thread of the instance is active; a start()
\* on a started adapter opens no second stream.
C35_AtMostOneStream ==
  /\ Constructed => Cardinality(Active(Threads)) <= 1
  /\ TwConstructed => Cardinality(Active(TwThreads)) <= 1

Stopped ==
  \/ Constructed /\ Val(alp).stopped
  \/ TwConstructed /\ Val(tw).stopped /\ Val(tw).callerPc = "idle"
Quiet ==
  \/ /\ Constructed
     /\ ~Self.running
     /\ \A t \in 1..Len(Threads) : Threads[t].pc = "dead"
  \/ /\ TwConstructed
     /\ ~TwSelf.running
     /\ \A t \in 1..Len(TwThreads) : TwThreads[t].pc = "dead"

\* C36: stop() is effective under every interleaving with the stream
\* thread: once stop() has returned and unless start() is called again,
\* the adapter eventually has its running flag false and every stream
\* thread ended (no open connection, no further delivery), also when the
\* thread had not created its connection yet.
C36_StopIsEffective == Stopped ~> (Quiet \/ ~Stopped)

(* the latest pass ended in an on_post call that raised *)
CallbackRaised ==
  Polled /\ LastReddit.raised /\ ~LastReddit.fetch.raised /\ LastReddit.calls # <<>>
FailedPost == LastReddit.calls[Len(LastReddit.calls)]
(* the posts of that batch from the failed one on: the failed post and     *)
(* the new posts that followed it                                          *)
LostWith ==
  {FailedPost.post_id}
    \cup (PostIdsOf(LastReddit.fetch.posts)
            \ (LastReddit.seenBefore \cup PostIdsOf(LastReddit.calls)))

\* C37: in the Reddit poll loop no post is lost to a callback failure: when
\* an on_post call raised, the next pass in which nothing raises calls
\* on_post for that post, and for the new posts that followed it in the
\* batch, if it fetches them.
C37_NoPostLostToCallback ==
  [][(CallbackRaised /\ RedditCycleStep /\ ~Val(Val(rd').last).raised)
       => \A id \in LostWith :
            id \in PostIdsOf(Val(Val(rd').last).fetch.posts)
              => id \in PostIdsOf(Val(Val(rd').last).calls)]_vars

\* C38: an exception raised by the on_news callback for one item of a
\* frame does not keep the later items of the frame from being delivered:
\* whichever call raised, on_news was called for every item the handler
\* calls it for when none raises.
C38_CallbackFailureIsolated ==
  (FrameHandled /\ LastFrame.raiseAt > 0)
    => LastFrame.delivered = on_message(LastFrame.frame, 0)

\* C39: every signal returned by TradeSignalService.signal has a consistent
\* side and reason: reason sentiment_bullish exactly with side buy, reason
\* sentiment_bearish exactly with side sell, side hold exactly with the
\* reasons neutral, low_confidence and circuit_breaker; and its score is
\* the sentiment score passed in.
C39_SideMatchesReason ==
  ~IsNone(sigOut)
    => LET out == Val(sigOut)
       IN  /\ out.side \in {"buy", "sell", "hold"}
           /\ out.reason \in {"sentiment_bullish", "sentiment_bearish", "neutral",
                              "low_confidence", "circuit_breaker"}
           /\ (out.reason = "sentiment_bullish") <=> (out.side = "buy")
           /\ (out.reason = "sentiment_bearish") <=> (out.side = "sell")
           /\ (out.side = "hold")
                <=> (out.reason \in {"neutral", "low_confidence", "circuit_breaker"})
           /\ out.score = Val(sigIn).sentiment_score

\* C39 witness: a service constructed with thresholds of its own returned a
\* buy for a confident score at the bullish threshold.
C39_Witness ==
  /\ ~IsNone(sigOut)
  /\ ~IsNone(svcArgs.threshold_bullish)
  /\ Val(sigOut).side = "buy"
  /\ Val(sigOut).reason = "sentiment_bullish"
  /\ Val(sigOut).score = Val(svc).threshold_bullish
  /\ ~IsNone(Val(sigIn).confidence)

RECURSIVE SumOf(_)
SumOf(values) == IF values = <<>> THEN 0 ELSE Head(values) + SumOf(Tail(values))
ValuesOf(values) == {values[i] : i \in 1..Len(values)}
(* every record_latency call that was made has returned *)
RecordersIdle ==
  /\ ~IsNone(mc)
  /\ Val(mc).recorded # <<>>
  /\ \A r \in Recorders : Recorder(r).pc = "idle"
LatencyStats == Val(mc).objects[Val(Val(mc).cur)]

\* C40: the latency metrics stay consistent when record_latency is called
\* from several threads at once: once the calls have returned, count is the
\* number of calls made, total the sum of the recorded values, avg is
\* total / count, and min and max are the smallest and the largest
\* recorded value.
C40_NoLostUpdate ==
  RecordersIdle
    => LET recorded == Val(mc).recorded
       IN  /\ LatencyStats.count = Len(recorded)
           /\ LatencyStats.total = SumOf(recorded)
           /\ LatencyStats.avg = [total |-> SumOf(recorded), count |-> Len(recorded)]
           /\ \A v \in ValuesOf(recorded) :
                Val(LatencyStats.min) <= v /\ v <= LatencyStats.max
           /\ {Val(LatencyStats.min), LatencyStats.max} \subseteq ValuesOf(recorded)

====
